---------------------------- MODULE Spec2Model ----------------------------
(***************************************************************************)
(* EPL-Tracker: the refresh-token session protocol (auth.service.ts,       *)
(* auth.controller.ts) running over the shared pg connection pool          *)
(* (db/pool.ts), and the points-per-game primitives of teams.service.ts.   *)
(*                                                                         *)
(* Every pool.query(...) of the source is one statement that is sent on    *)
(* whichever pooled connection is handed out for it: a first step checks a *)
(* connection out of the pool, a second step runs the statement on that    *)
(* connection and releases it.  A connection keeps its Postgres session    *)
(* state (open transaction, row locks, uncommitted writes) between         *)
(* statements.  Postgres runs at READ COMMITTED; now() is the start time   *)
(* of the current transaction.                                             *)
(***************************************************************************)
EXTENDS Integers, Sequences, FiniteSets, TLC

\* ------------------------------------------------------------------ bounds
NumProcs == 2      \* request handlers that may be in flight at once
MaxCalls == 3      \* requests started, and pool.query failures, in one behaviour
MaxTime == 1       \* last clock value (the clock counts expiry instants passed)
NumUsers == 2
MaxFaults == 1     \* failing pool.query calls in one behaviour (SpecFault)

\* ------------------------------------------------------- program constants
PoolMax == 5       \* pool.ts: max: 5
RefreshTtl == 1    \* 7 * 24 * 60 * 60 * 1000 ms: expiry is one clock value ahead
NULL == -1         \* SQL NULL of revoked_at / an absent value

Procs == 1..NumProcs
Users == 1..NumUsers
Conns == 1..PoolMax
UnknownTok == MaxCalls + 2   \* a raw token no handler ever generated
NoCookie == 0 - 1            \* the request carries no refresh cookie

VARIABLES
    now,             \* wall clock of the database server
    refresh_tokens,  \* table refresh_tokens: row id -> row
    nextId,          \* bigIncrements sequence of refresh_tokens.id
    conns,           \* pooled connection -> its Postgres session state
    idle,            \* the pool's idle list (last released is last)
    procs,           \* request handler slot -> its call frame
    nextTok,         \* next value of crypto.randomBytes(32)
    calls,           \* requests started so far
    known,           \* raw tokens handed to clients in a cookie
    rotOk,           \* raw token -> number of rotations of it that succeeded
    loggedOut,       \* raw tokens some completed logout has revoked
    faults,          \* pool.query calls that failed so far
    fin              \* input and result of the form / PPG computation

vars == <<now, refresh_tokens, nextId, conns, idle, procs, nextTok, calls,
          known, rotOk, loggedOut, faults, fin>>

sessVars == <<now, refresh_tokens, nextId, conns, idle, procs, nextTok,
              calls, known, rotOk, loggedOut, faults>>

\* ------------------------------------------------------------- auth.service
\* sha256(input): one-way and collision free, never the identity
sha256(input) == <<"sha256", input>>

\* a generator that hands out the same value every time
randomBytesConstant(n) == 1

\* crypto.randomBytes(32).toString("base64url"): a value never produced before
randomBytes(n) == n

ClosedConn == [open |-> FALSE, inTx |-> FALSE, txStart |-> 0,
               rev |-> {}, locks |-> {}]
FreshConn == [ClosedConn EXCEPT !.open = TRUE]

Ids == DOMAIN refresh_tokens

\* rows connection c can see: committed ones and those of its own transaction
Visible(c, r) == refresh_tokens[r].xid = 0 \/ refresh_tokens[r].xid = c

\* revoked_at IS NOT NULL as connection c sees row r
RevokedIn(c, r) == refresh_tokens[r].revoked_at # NULL \/ r \in conns[c].rev

\* now(): start of the current transaction, or of the statement outside one
SqlNow(c) == IF conns[c].inTx THEN conns[c].txStart ELSE now

LockedByOther(c, r) == \E d \in Conns : d # c /\ r \in conns[d].locks

\* WHERE token_hash = $1 AND revoked_at IS NULL AND expires_at > now()
ActiveRows(c, h) ==
    {r \in Ids : /\ Visible(c, r)
                 /\ refresh_tokens[r].token_hash = h
                 /\ ~RevokedIn(c, r)
                 /\ refresh_tokens[r].expires_at > SqlNow(c)}

\* WHERE token_hash = $1 AND revoked_at IS NULL
UnrevokedRows(c, h) ==
    {r \in Ids : /\ Visible(c, r)
                 /\ refresh_tokens[r].token_hash = h
                 /\ ~RevokedIn(c, r)}

\* the committed table, as a statement outside any transaction reads it
Committed == {r \in Ids : refresh_tokens[r].xid = 0}
CommittedActive(t) ==
    {r \in Committed : /\ refresh_tokens[r].token_hash = sha256(t)
                       /\ refresh_tokens[r].revoked_at = NULL
                       /\ refresh_tokens[r].expires_at > now}
CommittedRevoked(t) ==
    {r \in Committed : /\ refresh_tokens[r].token_hash = sha256(t)
                       /\ refresh_tokens[r].revoked_at # NULL}
RowsOf(t) == {r \in Ids : refresh_tokens[r].token_hash = sha256(t)}


\* ------------------------------------------------ Postgres session semantics
\* BEGIN: opens a transaction; inside one it only raises a warning
BeginOn(c) ==
    IF conns[c].inTx THEN conns[c]
    ELSE [conns[c] EXCEPT !.inTx = TRUE, !.txStart = now]

\* the table after connection c's transaction commits
CommitRows(c) ==
    [r \in Ids |->
        IF refresh_tokens[r].xid = c
        THEN [refresh_tokens[r] EXCEPT !.xid = 0]
        ELSE IF r \in conns[c].rev
             THEN [refresh_tokens[r] EXCEPT !.revoked_at = conns[c].txStart]
             ELSE refresh_tokens[r]]

\* the table after connection c's transaction rolls back (or c is closed)
RollbackRows(c) ==
    [r \in {x \in Ids : refresh_tokens[x].xid # c} |-> refresh_tokens[r]]

\* UPDATE refresh_tokens SET revoked_at = now() WHERE token_hash = $1 AND
\* revoked_at IS NULL, run on connection c; rby notes the rotation that wrote
\* it, by the token that rotation generated (0: a logout)
UpdateRows(c, h, k) ==
    [r \in Ids |->
        IF r \in UnrevokedRows(c, h) /\
           (~conns[c].inTx \/ refresh_tokens[r].xid = c)
        THEN [refresh_tokens[r] EXCEPT !.revoked_at = SqlNow(c), !.rby = k]
        ELSE IF r \in UnrevokedRows(c, h)
             THEN [refresh_tokens[r] EXCEPT !.rby = k]
             ELSE refresh_tokens[r]]
UpdateOn(c, h) ==
    IF conns[c].inTx
    THEN [conns[c] EXCEPT
            !.rev = @ \cup {r \in UnrevokedRows(c, h) : refresh_tokens[r].xid = 0},
            !.locks = @ \cup {r \in UnrevokedRows(c, h) : refresh_tokens[r].xid = 0}]
    ELSE conns[c]

\* INSERT INTO refresh_tokens (user_id, token_hash, expires_at) VALUES ...
InsertRows(c, u, h, exp) ==
    refresh_tokens @@
    (nextId :> [user_id |-> u, token_hash |-> h, expires_at |-> exp,
                revoked_at |-> NULL,
                xid |-> IF conns[c].inTx THEN c ELSE 0,
                rby |-> 0])

\* ---------------------------------------------------------------- db/pool.ts
OpenConns == {c \in Conns : conns[c].open}

\* pool.query, first half: hand out the last released idle client, or open a
\* new one while fewer than max exist; otherwise the query waits
Checkout(p) ==
    /\ procs[p].pc \notin {"idle", "done"}
    /\ procs[p].conn = 0
    /\ \/ /\ idle # <<>>
          /\ procs' = [procs EXCEPT ![p].conn = idle[Len(idle)]]
          /\ idle' = SubSeq(idle, 1, Len(idle) - 1)
          /\ conns' = conns
       \/ /\ idle = <<>>
          /\ Cardinality(OpenConns) < PoolMax
          /\ LET c == CHOOSE x \in Conns \ OpenConns :
                          \A y \in Conns \ OpenConns : x <= y
             IN /\ procs' = [procs EXCEPT ![p].conn = c]
                /\ conns' = [conns EXCEPT ![c] = FreshConn]
          /\ idle' = idle
    /\ UNCHANGED <<now, refresh_tokens, nextId, nextTok, calls, known, rotOk,
                   faults, fin, loggedOut>>

\* a statement that waits for a row lock another session holds
Blocked(p) ==
    /\ procs[p].conn # 0
    /\ \/ /\ procs[p].pc = "SELECT"
          /\ \E r \in ActiveRows(procs[p].conn, sha256(procs[p].raw)) :
                LockedByOther(procs[p].conn, r)
       \/ /\ procs[p].pc \in {"UPDATE", "REVOKE"}
          /\ \E r \in UnrevokedRows(procs[p].conn, sha256(procs[p].raw)) :
                LockedByOther(procs[p].conn, r)

\* no request is making progress: each handler slot is free, or waits for a
\* row lock
Quiet == \A p \in Procs : procs[p].pc \in {"idle", "done"} \/ Blocked(p)

\* idleTimeoutMillis: a client that sat idle for 30 s is closed, and the server
\* rolls back what its session had not committed.  Statements take far less
\* than that, so a client idles out only while no request makes progress.
IdleTimeout ==
    \E i \in 1..Len(idle) :
        /\ Quiet
        /\ idle' = SubSeq(idle, 1, i - 1) \o SubSeq(idle, i + 1, Len(idle))
        /\ conns' = [conns EXCEPT ![idle[i]] = ClosedConn]
        /\ refresh_tokens' = RollbackRows(idle[i])
        /\ UNCHANGED <<now, nextId, procs, nextTok, calls, known, rotOk,
                       faults, fin, loggedOut>>

\* the wall clock passes the expiry instant of the sessions issued in the
\* current period (a session issued at clock value k has expires_at k + 1);
\* taken between requests
Tick ==
    /\ now < MaxTime
    /\ \A p \in Procs : procs[p].pc \in {"idle", "done"}
    /\ now' = now + 1
    /\ UNCHANGED <<refresh_tokens, nextId, conns, idle, procs, nextTok, calls,
                   known, rotOk, faults, fin, loggedOut>>

\* ------------------------------------------------------------- call frames
IdleFrame == [op |-> "none", pc |-> "idle", raw |-> NoCookie, conn |-> 0,
              userId |-> 0, newTok |-> 0, err |-> "", status |-> 0,
              cookie |-> "none", exp |-> 0, attempts |-> 0,
              preRotated |-> FALSE, preInvalid |-> FALSE, preRevoked |-> FALSE,
              selActive |-> FALSE, post |-> FALSE]

\* handler slots are interchangeable: a request takes the first free one
CanStart(p) ==
    /\ procs[p].pc \in {"idle", "done"}
    /\ \A q \in Procs : q < p => procs[q].pc \notin {"idle", "done"}
    /\ calls + faults < MaxCalls

\* what a client can put in its refresh cookie
Presentable == known \cup {UnknownTok}

\* facts about raw token t in the state where a call on it starts
Frame(op, t, pc) ==
    [IdleFrame EXCEPT
        !.op = op, !.pc = pc, !.raw = t,
        !.exp = now + RefreshTtl,
        !.preRotated = (rotOk[t] > 0),
        !.preInvalid = \/ RowsOf(t) = {}
                       \/ CommittedRevoked(t) # {}
                       \/ \E r \in RowsOf(t) : refresh_tokens[r].expires_at <= now,
        !.preRevoked = (CommittedRevoked(t) # {})]

\* pool.query, second half: the statement has run; the client goes back to
\* the idle list
Release(p) == idle' = Append(idle, procs[p].conn)


Done(p, status, cookie) ==
    [procs[p] EXCEPT !.pc = "done", !.conn = 0, !.exp = 0, !.status = status,
                     !.cookie = cookie]

\* ---------------------------------------------- auth.controller.ts: login
\* login / register after the credential checks: generateRefreshToken(), then
\* storeRefreshToken, then setRefreshCookie
login(p, u) ==
    /\ CanStart(p)
    /\ procs' = [procs EXCEPT ![p] =
                    [Frame("login", randomBytes(nextTok), "STORE") EXCEPT
                        !.userId = u, !.newTok = randomBytes(nextTok)]]
    /\ nextTok' = nextTok + 1
    /\ calls' = calls + 1
    /\ UNCHANGED <<now, refresh_tokens, nextId, conns, idle, known, rotOk,
                   faults, fin, loggedOut>>

storeRefreshToken(p) ==
    /\ procs[p].pc = "STORE"
    /\ procs[p].conn # 0
    /\ refresh_tokens' = InsertRows(procs[p].conn, procs[p].userId,
                                    sha256(procs[p].newTok), procs[p].exp)
    /\ nextId' = nextId + 1
    /\ Release(p)
    /\ procs' = [procs EXCEPT ![p] = Done(p, 200, "set")]
    /\ known' = known \cup {procs[p].newTok}
    /\ UNCHANGED <<now, conns, nextTok, calls, rotOk, faults, fin, loggedOut>>

\* --------------------------------------------- auth.controller.ts: logout
logout(p, t) ==
    /\ CanStart(p)
    /\ procs' = [procs EXCEPT ![p] =
                    IF t = NoCookie
                    THEN [IdleFrame EXCEPT !.op = "logout", !.pc = "done",
                                           !.status = 200,
                                           !.cookie = "cleared"]
                    ELSE Frame("logout", t, "REVOKE")]
    /\ calls' = calls + 1
    /\ UNCHANGED <<now, refresh_tokens, nextId, conns, idle, nextTok, known,
                   rotOk, faults, fin, loggedOut>>

revokeRefreshToken(p) ==
    LET c == procs[p].conn
        h == sha256(procs[p].raw)
    IN /\ procs[p].pc = "REVOKE"
       /\ c # 0
       /\ \A r \in UnrevokedRows(c, h) : ~LockedByOther(c, r)
       /\ refresh_tokens' = UpdateRows(c, h, 0)
       /\ conns' = [conns EXCEPT ![c] = UpdateOn(c, h)]
       /\ Release(p)
       /\ procs' = [procs EXCEPT ![p] = Done(p, 200, "cleared")]
       /\ UNCHANGED <<now, nextId, nextTok, calls, known, rotOk, faults, fin>>
       /\ loggedOut' = loggedOut \cup {procs[p].raw}

\* ----------------------------------------- auth.service.ts: validity check
validate(p, t) ==
    /\ CanStart(p)
    /\ procs' = [procs EXCEPT ![p] = Frame("validate", t, "VALIDATE")]
    /\ calls' = calls + 1
    /\ UNCHANGED <<now, refresh_tokens, nextId, conns, idle, nextTok, known,
                   rotOk, faults, fin, loggedOut>>

isRefreshTokenValid(p) ==
    LET c == procs[p].conn
        rows == ActiveRows(c, sha256(procs[p].raw))
    IN /\ procs[p].pc = "VALIDATE"
       /\ c # 0
       /\ \/ /\ rows = {}
             /\ procs' = [procs EXCEPT ![p] =
                             [Done(p, 401, "none") EXCEPT !.userId = NULL]]
          \/ \E r \in rows :
                procs' = [procs EXCEPT ![p] =
                    [Done(p, 200, "none") EXCEPT
                        !.userId = refresh_tokens[r].user_id]]
       /\ Release(p)
       /\ UNCHANGED <<now, refresh_tokens, nextId, conns, nextTok, calls,
                      known, rotOk, faults, fin, loggedOut>>


\* -------------------------------------------- auth.controller.ts: refresh
\* refresh up to the first statement of rotateRefreshToken: the new token is
\* generated before BEGIN
refresh(p, t) ==
    /\ CanStart(p)
    /\ procs' = [procs EXCEPT ![p] =
                    IF t = NoCookie
                    THEN [IdleFrame EXCEPT !.op = "refresh", !.pc = "done",
                                           !.status = 401]
                    ELSE [Frame("refresh", t, "BEGIN") EXCEPT
                            !.newTok = randomBytes(nextTok)]]
    /\ nextTok' = IF t = NoCookie THEN nextTok ELSE nextTok + 1
    /\ calls' = calls + 1
    /\ UNCHANGED <<now, refresh_tokens, nextId, conns, idle, known, rotOk,
                   faults, fin, loggedOut>>

\* await pool.query("BEGIN")
rotateBegin(p) ==
    LET c == procs[p].conn
    IN /\ procs[p].pc = "BEGIN"
       /\ c # 0
       /\ conns' = [conns EXCEPT ![c] = BeginOn(c)]
       /\ Release(p)
       /\ procs' = [procs EXCEPT ![p].pc = "SELECT", ![p].conn = 0,
                                 ![p].attempts = @ + 1]
       /\ UNCHANGED <<now, refresh_tokens, nextId, nextTok, calls, known,
                      rotOk, faults, fin, loggedOut>>

\* SELECT user_id ... FOR UPDATE, then const row = sessionRes.rows[0]
rotateSelect(p) ==
    LET c == procs[p].conn
        rows == ActiveRows(c, sha256(procs[p].raw))
    IN /\ procs[p].pc = "SELECT"
       /\ c # 0
       /\ \A r \in rows : ~LockedByOther(c, r)
       /\ \/ /\ rows = {}
             /\ procs' = [procs EXCEPT ![p].pc = "ROLLBACK_INVALID",
                                       ![p].conn = 0,
                                       ![p].selActive =
                                           (CommittedActive(procs[p].raw) # {})]
          \/ \E r \in rows :
                procs' = [procs EXCEPT ![p].pc = "UPDATE", ![p].conn = 0,
                                       ![p].userId = refresh_tokens[r].user_id,
                                       ![p].selActive =
                                           (CommittedActive(procs[p].raw) # {})]
       /\ conns' = [conns EXCEPT ![c].locks =
                       IF conns[c].inTx
                       THEN @ \cup {r \in rows : refresh_tokens[r].xid = 0}
                       ELSE @]
       /\ Release(p)
       /\ UNCHANGED <<now, refresh_tokens, nextId, nextTok, calls, known,
                      rotOk, faults, fin, loggedOut>>

\* 2) Revoke old token
rotateUpdate(p) ==
    LET c == procs[p].conn
        h == sha256(procs[p].raw)
    IN /\ procs[p].pc = "UPDATE"
       /\ c # 0
       /\ \A r \in UnrevokedRows(c, h) : ~LockedByOther(c, r)
       /\ refresh_tokens' = UpdateRows(c, h, procs[p].newTok)
       /\ conns' = [conns EXCEPT ![c] = UpdateOn(c, h)]
       /\ Release(p)
       /\ procs' = [procs EXCEPT ![p].pc = "INSERT", ![p].conn = 0]
       /\ UNCHANGED <<now, nextId, nextTok, calls, known, rotOk, faults, fin, loggedOut>>

\* 3) Insert new token session
rotateInsert(p) ==
    /\ procs[p].pc = "INSERT"
    /\ procs[p].conn # 0
    /\ refresh_tokens' = InsertRows(procs[p].conn, procs[p].userId,
                                    sha256(procs[p].newTok), procs[p].exp)
    /\ nextId' = nextId + 1
    /\ Release(p)
    /\ procs' = [procs EXCEPT ![p].pc = "COMMIT", ![p].conn = 0]
    /\ UNCHANGED <<now, conns, nextTok, calls, known, rotOk, faults, fin, loggedOut>>

\* the store a rotation of raw token t into token n for user u is meant to
\* leave behind, read in table T: t's session revoked, one session under the
\* hash of n, Active and of user u
RotatedIn(T, t, n, u) ==
    LET com == {r \in DOMAIN T : T[r].xid = 0}
        old == {r \in com : T[r].token_hash = sha256(t)}
        new == {r \in com : T[r].token_hash = sha256(n)}
        act == {r \in com : /\ T[r].token_hash = sha256(n)
                            /\ T[r].revoked_at = NULL
                            /\ T[r].expires_at > now}
    IN /\ old # {}
       /\ \A r \in old : T[r].revoked_at # NULL
       /\ Cardinality(new) = 1
       /\ new = act
       /\ \A r \in new : T[r].user_id = u

\* await pool.query("COMMIT"); return { userId, newRefreshToken }; then, in
\* refresh, setRefreshCookie(res, newRefreshToken)
rotateCommit(p) ==
    LET c == procs[p].conn
        T == IF conns[c].inTx THEN CommitRows(c) ELSE refresh_tokens
    IN /\ procs[p].pc = "COMMIT"
       /\ c # 0
       /\ refresh_tokens' = T
       /\ conns' = [conns EXCEPT ![c] = FreshConn]
       /\ Release(p)
       /\ procs' = [procs EXCEPT
                      ![p].pc = "GETUSER", ![p].conn = 0, ![p].cookie = "set",
                      ![p].post = RotatedIn(T, procs[p].raw, procs[p].newTok,
                                            procs[p].userId)]
       /\ known' = known \cup {procs[p].newTok}
       /\ rotOk' = [rotOk EXCEPT ![procs[p].raw] = @ + 1]
       /\ UNCHANGED <<now, nextId, nextTok, calls, faults, fin, loggedOut>>

\* const user = await getUserById(userId); res.json({ accessToken })
getUserById(p) ==
    /\ procs[p].pc = "GETUSER"
    /\ procs[p].conn # 0
    /\ Release(p)
    /\ procs' = [procs EXCEPT ![p] = Done(p, 200, procs[p].cookie)]
    /\ UNCHANGED <<now, refresh_tokens, nextId, conns, nextTok, calls, known,
                   rotOk, faults, fin, loggedOut>>

\* if (!row) { await pool.query("ROLLBACK"); throw new Error("REFRESH_INVALID") }
rotateRollbackInvalid(p) ==
    LET c == procs[p].conn
    IN /\ procs[p].pc = "ROLLBACK_INVALID"
       /\ c # 0
       /\ refresh_tokens' = RollbackRows(c)
       /\ conns' = [conns EXCEPT ![c] = FreshConn]
       /\ Release(p)
       /\ procs' = [procs EXCEPT ![p].pc = "ROLLBACK_CATCH", ![p].conn = 0,
                                 ![p].err = "REFRESH_INVALID"]
       /\ UNCHANGED <<now, nextId, nextTok, calls, known, rotOk, faults, fin, loggedOut>>

\* a refresh that answers every failed rotation with the generic 500
refreshCatchGeneric(p) == Done(p, 500, procs[p].cookie)

\* the catch of refresh: REFRESH_INVALID clears the cookie and answers 401,
\* anything else answers 500
refreshCatch(p) ==
    IF procs[p].err = "REFRESH_INVALID"
    THEN Done(p, 401, "cleared")
    ELSE Done(p, 500, procs[p].cookie)

\* catch (err) { await pool.query("ROLLBACK"); throw err }, then the catch of
\* refresh
rotateRollbackCatch(p) ==
    LET c == procs[p].conn
    IN /\ procs[p].pc = "ROLLBACK_CATCH"
       /\ c # 0
       /\ refresh_tokens' = RollbackRows(c)
       /\ conns' = [conns EXCEPT ![c] = FreshConn]
       /\ Release(p)
       /\ procs' = [procs EXCEPT ![p] = refreshCatch(p)]
       /\ UNCHANGED <<now, nextId, nextTok, calls, known, rotOk, faults, fin, loggedOut>>

\* a pool.query that rejects before its statement runs (no client within
\* connectionTimeoutMillis, connection refused); the error surfaces where the
\* call was awaited
queryFails(p) ==
    /\ faults < MaxFaults
    /\ calls + faults < MaxCalls
    /\ procs[p].pc \notin {"idle", "done"}
    /\ procs[p].conn = 0
    /\ faults' = faults + 1
    /\ procs' = [procs EXCEPT ![p] =
          IF procs[p].pc \in {"SELECT", "UPDATE", "INSERT", "COMMIT",
                              "ROLLBACK_INVALID"}
          THEN [procs[p] EXCEPT !.pc = "ROLLBACK_CATCH", !.err = "DB_ERROR"]
          ELSE [Done(p, 500, procs[p].cookie) EXCEPT !.err = "DB_ERROR"]]
    /\ UNCHANGED <<now, refresh_tokens, nextId, conns, idle, nextTok, calls,
                   known, rotOk, fin, loggedOut>>

\* ------------------------------------------------------------ teams.service
MaxMatches == 3    \* finished matches of a team in the matches table
TeamExt == 1       \* external_team_id of the team asked about
OtherExt == 2      \* external_team_id of its opponent in a match

\* a numeric column as node-pg returns it: text, "null" standing for SQL NULL
ScorePairs == {<<"2", "0">>, <<"0", "1">>, <<"null", "NaN">>}

\* winner smallint nullable: 1 home, 2 away, 0 draw, NULL or another value
Winners == {NULL, 0, 1, 2, 3}

\* the rows of matches that the queries' WHERE clause keeps for TeamExt
MatchRows ==
    {[winner |-> w, home_team_external_id |-> h,
      away_team_external_id |-> (TeamExt + OtherExt) - h,
      home_score |-> s[1], away_score |-> s[2]] :
        w \in Winners, h \in {TeamExt, OtherExt}, s \in ScorePairs}

\* ORDER BY start_time DESC: every order of up to MaxMatches such rows
MatchLists == UNION {[1..k -> MatchRows] : k \in 0..MaxMatches}

\* LIMIT $2
Limit(rows, n) == SubSeq(rows, 1, IF n < Len(rows) THEN n ELSE Len(rows))

\* Number(x) of a numeric text, Number.isFinite(n) ? n : null
numOrNull(x) ==
    CASE x = "null" -> NULL
      [] x = "0" -> 0
      [] x = "1" -> 1
      [] x = "2" -> 2
      [] OTHER -> NULL

\* a ?? b
Coalesce(a, b) == IF a = NULL THEN b ELSE a

NoResult == "null"

getTeamResultForMatch(match, teamExternalId) ==
    LET teamIsHome == match.home_team_external_id = teamExternalId
    IN CASE match.winner = NULL -> NoResult
         [] match.winner = 0 -> "D"
         [] match.winner = 1 -> IF teamIsHome THEN "W" ELSE "L"
         [] match.winner = 2 -> IF teamIsHome THEN "L" ELSE "W"
         [] OTHER -> NoResult

\* a division left out: the points total in place of the average
safeDivideTotal(a, b) == <<a, 1>>

\* a / b of two integers, kept exact as the pair <<numerator, denominator>>
safeDivideOne(a, b) == IF b = 0 THEN <<1, 1>> ELSE <<a, b>>

safeDivide(a, b) == IF b = 0 THEN <<0, 1>> ELSE <<a, b>>

\* points read off the winner code alone, the asking team taken to be at home
pointsFromWinnerHomeOnly(winner, homeExternalId, awayExternalId, teamExternalId) ==
    CASE winner = NULL -> NULL
      [] winner = 0 -> 1
      [] winner = 1 -> 3
      [] winner = 2 -> 0
      [] OTHER -> NULL

pointsFromWinnerPerspective(winner, homeExternalId, awayExternalId, teamExternalId) ==
    LET teamIsHome == homeExternalId = teamExternalId
    IN CASE winner = NULL -> NULL
         [] winner = 0 -> 1
         [] winner = 1 -> IF teamIsHome THEN 3 ELSE 0
         [] winner = 2 -> IF teamIsHome THEN 0 ELSE 3
         [] OTHER -> NULL

\* Number(q.toFixed(2)) of a quotient q = <<numerator, denominator>> with a
\* positive denominator, in hundredths: the nearest, the sign apart.  A
\* quotient halfway between two hundredths goes away from zero here; toFixed
\* decides it by the double's binary expansion.
toFixed2(q) ==
    IF q[1] < 0
    THEN 0 - ((200 * (0 - q[1]) + q[2]) \div (2 * q[2]))
    ELSE (200 * q[1] + q[2]) \div (2 * q[2])

\* the quotient is halfway between two hundredths
IsTie(q) ==
    LET a == IF q[1] < 0 THEN 0 - q[1] ELSE q[1]
    IN (200 * a) % (2 * q[2]) = q[2]

\* what Number(x.toFixed(2)) may give for a double x computed for the
\* quotient q: the nearest hundredth, either neighbour when q is halfway (the
\* double is then just below or just above the half)
Rounds(q) ==
    {toFixed2(q)} \cup
    (IF IsTie(q) THEN {toFixed2(q) + (IF q[1] < 0 THEN 1 ELSE -1)} ELSE {})

RECURSIVE SumOf(_, _)
\* arr.reduce((a, x) => a + x.f, 0)
SumOf(arr, f) == IF arr = <<>> THEN 0 ELSE arr[1][f] + SumOf(Tail(arr), f)

\* the body of getTeamForm's loop over rows, before its `continue`
PerMatchOfTwoForWin(m, teamExternalId) ==
    LET teamIsHome == m.home_team_external_id = teamExternalId
        homeScore == Coalesce(numOrNull(m.home_score), 0)
        awayScore == Coalesce(numOrNull(m.away_score), 0)
        gf == IF teamIsHome THEN homeScore ELSE awayScore
        ga == IF teamIsHome THEN awayScore ELSE homeScore
        r == getTeamResultForMatch(m, teamExternalId)
    IN [points |-> IF r = "W" THEN 2 ELSE IF r = "D" THEN 1 ELSE 0,
        gf |-> gf, ga |-> ga, gd |-> gf - ga,
        clean |-> IF ga = 0 THEN 1 ELSE 0, result |-> r]

PerMatchOf(m, teamExternalId) ==
    LET teamIsHome == m.home_team_external_id = teamExternalId
        homeScore == Coalesce(numOrNull(m.home_score), 0)
        awayScore == Coalesce(numOrNull(m.away_score), 0)
        gf == IF teamIsHome THEN homeScore ELSE awayScore
        ga == IF teamIsHome THEN awayScore ELSE homeScore
        r == getTeamResultForMatch(m, teamExternalId)
    IN [points |-> IF r = "W" THEN 3 ELSE IF r = "D" THEN 1 ELSE 0,
        gf |-> gf, ga |-> ga, gd |-> gf - ga,
        clean |-> IF ga = 0 THEN 1 ELSE 0, result |-> r]

EmptyFormUnset(matches) ==
    [matches |-> matches, form |-> <<>>, points |-> NULL, ppg |-> NULL,
     gf |-> NULL, ga |-> NULL, gd |-> NULL, cleanSheets |-> NULL,
     avgGoalsFor |-> NULL, avgGoalsAgainst |-> NULL, formRating |-> <<>>]

\* the snapshot getTeamForm returns when there is nothing to aggregate
EmptyForm(matches) ==
    [matches |-> matches, form |-> <<>>, points |-> 0, ppg |-> 0,
     gf |-> 0, ga |-> 0, gd |-> 0, cleanSheets |-> 0,
     avgGoalsFor |-> 0, avgGoalsAgainst |-> 0, formRating |-> <<>>]

\* Math.min(5, n)
RECENT_N(n) == IF 5 < n THEN 5 ELSE n

BASELINE_N_Uncapped(n) == IF 0 < n - RECENT_N(n) THEN n - RECENT_N(n) ELSE 0

\* Math.min(10, Math.max(0, n - RECENT_N))
BASELINE_N(n) ==
    LET rest == IF 0 < n - RECENT_N(n) THEN n - RECENT_N(n) ELSE 0
    IN IF 10 < rest THEN 10 ELSE rest

\* perMatch of getTeamForm: the rows with a result, newest first
PerMatchList(table, teamExternalId, limit) ==
    LET rows == Limit(table, limit)
        all == [i \in 1..Len(rows) |-> PerMatchOf(rows[i], teamExternalId)]
    IN SelectSeq(all, LAMBDA x : x.result # NoResult)

\* a - b of two quotients
SubQ(a, b) == <<a[1] * b[2] - b[1] * a[2], a[2] * b[2]>>

\* deltaPPG and deltaGDPM of a non-empty perMatch, as quotients; the
\* quotients that are equal are equal as doubles, so the signs are the code's
DeltasOf(perMatch) ==
    LET n == Len(perMatch)
        recent == SubSeq(perMatch, 1, RECENT_N(n))
        baseline == SubSeq(perMatch, RECENT_N(n) + 1, RECENT_N(n) + BASELINE_N(n))
        recentPPG == <<SumOf(recent, "points"), RECENT_N(n)>>
        recentGDPM == <<SumOf(recent, "gd"), RECENT_N(n)>>
        baselinePPG == IF Len(baseline) > 0
                       THEN <<SumOf(baseline, "points"), Len(baseline)>>
                       ELSE <<SumOf(perMatch, "points"), n>>
        baselineGDPM == IF Len(baseline) > 0
                        THEN <<SumOf(baseline, "gd"), Len(baseline)>>
                        ELSE <<SumOf(perMatch, "gd"), n>>
    IN [deltaPPG |-> SubQ(recentPPG, baselinePPG),
        deltaGDPM |-> SubQ(recentGDPM, baselineGDPM)]

\* the confirmation signal of two deltas (quotients)
confirmation(deltaPPG, deltaGDPM) ==
    IF deltaPPG[1] > 0 /\ deltaGDPM[1] < 0 THEN "Results > performance"
    ELSE IF deltaPPG[1] > 0 /\ deltaGDPM[1] >= 0 THEN "Performance-backed"
    ELSE IF deltaPPG[1] < 0 /\ deltaGDPM[1] < 0 THEN "Consistently struggling"
    ELSE "Mixed"

ppgRatingLoose(delta) ==
    IF 5 * delta[1] >= 2 * delta[2] THEN "Strong form"
    ELSE IF delta[1] >= 0 THEN "Good form"
    ELSE IF 20 * delta[1] > 0 - 3 * delta[2] THEN "Average form"
    ELSE IF 5 * delta[1] > 0 - 2 * delta[2] THEN "Poor form"
    ELSE "Bad form"

\* ppgRating(delta), delta a quotient with a positive denominator: the
\* thresholds are 0.4 = 2/5 and 0.15 = 3/20
ppgRating(delta) ==
    IF 5 * delta[1] >= 2 * delta[2] THEN "Strong form"
    ELSE IF 20 * delta[1] >= 3 * delta[2] THEN "Good form"
    ELSE IF 20 * delta[1] > 0 - 3 * delta[2] THEN "Average form"
    ELSE IF 5 * delta[1] > 0 - 2 * delta[2] THEN "Poor form"
    ELSE "Bad form"

\* the ratings the code may give for a delta: a difference of two doubles
\* that is a threshold exactly may fall on either side of it (1.4 - 1 is
\* 0.3999999999999999)
ppgRatings(delta) ==
    {ppgRating(delta)} \cup
    (IF 5 * delta[1] = 2 * delta[2] THEN {"Good form"} ELSE {}) \cup
    (IF 20 * delta[1] = 3 * delta[2] THEN {"Average form"} ELSE {}) \cup
    (IF 20 * delta[1] = 0 - 3 * delta[2] THEN {"Average form"} ELSE {}) \cup
    (IF 5 * delta[1] = 0 - 2 * delta[2] THEN {"Poor form"} ELSE {})

\* getTeamForm(teamId, {matches: limit}) over the team's finished matches,
\* newest first; ppg and the averages in hundredths; formRating is <<>> for
\* null, else one record holding the two points-per-game windows
FormOf(table, teamExternalId, limit) ==
    LET rows == Limit(table, limit)
        perMatch == PerMatchList(table, teamExternalId, limit)
        points == SumOf(perMatch, "points")
        gf == SumOf(perMatch, "gf")
        ga == SumOf(perMatch, "ga")
        n == Len(perMatch)
        recent == SubSeq(perMatch, 1, RECENT_N(n))
        baseline == SubSeq(perMatch, RECENT_N(n) + 1, RECENT_N(n) + BASELINE_N(n))
        recentPPG == IF RECENT_N(n) # 0 THEN <<SumOf(recent, "points"), RECENT_N(n)>>
                     ELSE <<0, 1>>
        baselinePPG == IF Len(baseline) > 0
                       THEN <<SumOf(baseline, "points"), Len(baseline)>>
                       ELSE <<points, n>>
    IN IF Len(rows) = 0 THEN EmptyForm(0)
       ELSE IF n = 0 THEN EmptyForm(Len(rows))
       ELSE [matches |-> n,
             form |-> [i \in 1..n |-> perMatch[i].result],
             points |-> points,
             ppg |-> toFixed2(<<points, n>>),
             gf |-> gf, ga |-> ga, gd |-> gf - ga,
             cleanSheets |-> SumOf(perMatch, "clean"),
             avgGoalsFor |-> toFixed2(<<gf, n>>),
             avgGoalsAgainst |-> toFixed2(<<ga, n>>),
             formRating |-> <<[recentMatches |-> RECENT_N(n),
                               baselineMatches |-> IF Len(baseline) # 0
                                                   THEN Len(baseline) ELSE n,
                               recentPPG |-> toFixed2(recentPPG),
                               baselinePPG |-> toFixed2(baselinePPG)]>>]

\* the snapshots getTeamForm may return: FormOf with the two deltas, rounded,
\* the rating and the confirmation signal added to formRating
FormsOf(table, teamExternalId, limit) ==
    LET f == FormOf(table, teamExternalId, limit)
        d == DeltasOf(PerMatchList(table, teamExternalId, limit))
    IN IF f.formRating = <<>> THEN {f}
       ELSE {[f EXCEPT !.formRating =
                  <<[recentMatches |-> @[1].recentMatches,
                     baselineMatches |-> @[1].baselineMatches,
                     recentPPG |-> @[1].recentPPG,
                     baselinePPG |-> @[1].baselinePPG,
                     deltaPPG |-> dp,
                     rating |-> rating,
                     deltaGDPerMatch |-> dg,
                     confirmation |-> confirmation(d.deltaPPG, d.deltaGDPM)]>>] :
                dp \in Rounds(d.deltaPPG), dg \in Rounds(d.deltaGDPM),
                rating \in ppgRatings(d.deltaPPG)}

\* getTeamPpgFromLastEndedMatches(teamExternalId, limit); ppg in hundredths
PpgOf(table, teamExternalId, limit) ==
    LET rows == Limit(table, limit)
        p == [i \in 1..Len(rows) |->
                 pointsFromWinnerPerspective(rows[i].winner,
                     rows[i].home_team_external_id,
                     rows[i].away_team_external_id, teamExternalId)]
        countedRows == SelectSeq(p, LAMBDA x : x # NULL)
        points == SumOf([i \in 1..Len(countedRows) |-> [p |-> countedRows[i]]], "p")
        counted == Len(countedRows)
    IN IF Len(rows) = 0 THEN [ppg |-> 0, matches |-> 0]
       ELSE [ppg |-> toFixed2(safeDivide(points, counted)), matches |-> counted]

\* GET /api/teams/:teamId/form?matches=limit
getTeamForm(limit) ==
    /\ fin.form = <<>>
    /\ \E snapshot \in FormsOf(fin.matches, TeamExt, limit) :
          fin' = [fin EXCEPT !.form = <<snapshot>>, !.formLimit = limit]
    /\ UNCHANGED sessVars

\* one call of the opponent-PPG helper of getTeamFixtureDifficulty
getTeamPpgFromLastEndedMatches(limit) ==
    /\ fin.opp = <<>>
    /\ fin' = [fin EXCEPT !.opp = <<PpgOf(fin.matches, TeamExt, limit)>>,
                          !.oppLimit = limit]
    /\ UNCHANGED sessVars

\* the two perspectives on one match: what the calculators' loops derive from
\* a row for team t (getTeamResultForMatch, pointsFromWinnerPerspective)
perspective(t) ==
    /\ fin.persp[t] = <<>>
    /\ fin' = [fin EXCEPT !.persp[t] =
                  <<[points |-> pointsFromWinnerPerspective(fin.match.winner,
                                   fin.match.home_team_external_id,
                                   fin.match.away_team_external_id, t),
                     result |-> getTeamResultForMatch(fin.match, t)]>>]
    /\ UNCHANGED sessVars

\* ------------------------------------------------ teams.service: trends
MaxLong == 6       \* finished matches in the tables of the trend and rating runs

\* five of the MatchRows, from TeamExt's side: a 1-0 away win, a 0-2 away
\* defeat, a 0-1 home defeat, a draw without scores, a row without winner
FormRows ==
    {[winner |-> 2, home_team_external_id |-> OtherExt,
      away_team_external_id |-> TeamExt, home_score |-> "0", away_score |-> "1"],
     [winner |-> 1, home_team_external_id |-> OtherExt,
      away_team_external_id |-> TeamExt, home_score |-> "2", away_score |-> "0"],
     [winner |-> 2, home_team_external_id |-> TeamExt,
      away_team_external_id |-> OtherExt, home_score |-> "0", away_score |-> "1"],
     [winner |-> 0, home_team_external_id |-> TeamExt,
      away_team_external_id |-> OtherExt, home_score |-> "null", away_score |-> "NaN"],
     [winner |-> NULL, home_team_external_id |-> TeamExt,
      away_team_external_id |-> OtherExt, home_score |-> "2", away_score |-> "0"]}

PadLen == 10       \* older matches appended to reach the baseline cap

LongLists == UNION {[1..k -> FormRows] : k \in 0..MaxLong}

\* the rows with their start_time column: ORDER BY start_time DESC puts the
\* latest first, so a row's time is its distance from the end of the table
Dated(table) ==
    [i \in 1..Len(table) |-> table[i] @@ [start_time |-> Len(table) - i + 1]]

\* a < b and a > b of two quotients with positive denominators
LessQ(a, b) == a[1] * b[2] < b[1] * a[2]

clampNoCeiling(n, lo, hi) == IF LessQ(n, lo) THEN lo ELSE n

\* Math.min(Math.max(n, lo), hi) of quotients
clamp(n, lo, hi) ==
    LET m == IF LessQ(n, lo) THEN lo ELSE n
    IN IF LessQ(hi, m) THEN hi ELSE m

\* one entry of stats: chronological.map((m) => ...)
MatchStatOf(m, teamExternalId) ==
    LET teamIsHome == m.home_team_external_id = teamExternalId
        homeScore == Coalesce(numOrNull(m.home_score), 0)
        awayScore == Coalesce(numOrNull(m.away_score), 0)
        gf == IF teamIsHome THEN homeScore ELSE awayScore
        ga == IF teamIsHome THEN awayScore ELSE homeScore
        r == getTeamResultForMatch(m, teamExternalId)
    IN [date |-> m.start_time,
        points |-> IF r = "W" THEN 3 ELSE IF r = "D" THEN 1 ELSE 0,
        gf |-> gf, ga |-> ga, gd |-> gf - ga]

\* how often the loop `for (i = 0; i <= arr.length - window; i++)` runs, for
\* arr.length >= window
WindowCount(n, window) == ((n * window[2] - window[1]) \div window[2]) + 1

\* how often the loop `for (j = i; j < i + window; j++)` runs
WindowSpan(window) == (window[1] + window[2] - 1) \div window[2]

\* roll(arr, window, pick): the sums, one per start index
roll(arr, window, pick) ==
    [i \in 1..WindowCount(Len(arr), window) |->
        SumOf(SubSeq(arr, i, i + WindowSpan(window) - 1), pick)]

\* rolling.map((x) => Number((x / w).toFixed(2))), in hundredths
PerMatchSeries(rolling, w) ==
    [i \in 1..Len(rolling) |-> toFixed2(<<rolling[i] * w[2], w[1]>>)]

\* arr.slice(start): start is truncated to an integer
slice(arr, start) ==
    LET k == start[1] \div start[2]
    IN IF k >= Len(arr) THEN <<>> ELSE SubSeq(arr, k + 1, Len(arr))

\* getTeamTrends(teamId, {matches, window}) of the service; window is a
\* quotient, matches an integer
TrendsOf(table, teamExternalId, matches, window) ==
    LET rows == Limit(Dated(table), matches)
        n == Len(rows)
        chronological == [i \in 1..n |-> rows[n + 1 - i]]
        stats == [i \in 1..n |-> MatchStatOf(chronological[i], teamExternalId)]
        labels == slice(stats, <<window[1] - window[2], window[2]>>)
    IN IF LessQ(<<n, 1>>, window)
       THEN [status |-> 200, matches |-> n, window |-> window,
             pointsSeries |-> <<>>, ppgSeries |-> <<>>, gdSeries |-> <<>>,
             gfSeries |-> <<>>, gaSeries |-> <<>>, labels |-> <<>>]
       ELSE [status |-> 200, matches |-> n, window |-> window,
             labels |-> [i \in 1..Len(labels) |-> labels[i].date],
             ppgSeries |-> PerMatchSeries(roll(stats, window, "points"), window),
             gdPerMatchSeries |-> PerMatchSeries(roll(stats, window, "gd"), window),
             gfPerMatchSeries |-> PerMatchSeries(roll(stats, window, "gf"), window),
             gaPerMatchSeries |-> PerMatchSeries(roll(stats, window, "ga"), window)]

\* the query values a request may carry: <<>> is an absent or non-numeric one
MatchesQueries == {<<>>, <<1, 1>>, <<6, 1>>}
WindowQueries == {<<>>, <<1, 1>>, <<5, 2>>, <<3, 1>>, <<6, 1>>}

\* GET /api/teams/:teamId/trends?matches=..&window=..  (teams.controller)
getTeamTrends(matchesRaw, windowRaw) ==
    LET matches == IF matchesRaw = <<>> THEN <<20, 1>>
                   ELSE clamp(matchesRaw, <<5, 1>>, <<50, 1>>)
        window == IF windowRaw = <<>> THEN <<5, 1>>
                  ELSE clamp(windowRaw, <<2, 1>>, <<10, 1>>)
    IN /\ fin.trend = <<>>
       /\ fin' = [fin EXCEPT !.trend =
                     IF LessQ(matches, window)
                     THEN <<[status |-> 400]>>
                     ELSE <<TrendsOf(fin.matches, TeamExt, matches[1], window)>>]
       /\ UNCHANGED sessVars

\* ------------------------------------- teams.service: fixture difficulty
MaxOpp == 4        \* finished matches of the opponent
MaxFixtures == 2   \* upcoming matches of the team

\* the opponent's finished matches as the helper's query returns them, the
\* opponent (OtherExt) away in each: won, drawn, lost, without winner
OppRows ==
    {[winner |-> w, home_team_external_id |-> TeamExt,
      away_team_external_id |-> OtherExt] : w \in {2, 0, 1, NULL}}

OppLists == UNION {[1..k -> OppRows] : k \in 0..MaxOpp}

\* the team's upcoming matches, earliest first: at home or away to OtherExt
FixtureRows ==
    {[home_team_external_id |-> TeamExt, away_team_external_id |-> OtherExt],
     [home_team_external_id |-> OtherExt, away_team_external_id |-> TeamExt]}

FixtureLists == UNION {[1..k -> FixtureRows] : k \in 0..MaxFixtures}

\* a text column that is NULL
NullText == "<null>"

\* those as rows of the matches table: scheduled, one after the other from
\* the next instant on
ScheduledRows(list) ==
    [i \in 1..Len(list) |->
        list[i] @@ [id |-> i, status_group |-> 1, status_text |-> "Scheduled",
                    short_status_text |-> NullText, start_time |-> i]]

MaxUpcoming == 3   \* rows of the team in the matches table

\* the status columns the ingestion writes (statusGroup 1 scheduled, 4 ended,
\* 6 cancelled; the seed script stores a game of any status)
Statuses ==
    {[status_group |-> 1, status_text |-> "Scheduled", short_status_text |-> NullText],
     [status_group |-> 4, status_text |-> "Ended", short_status_text |-> NullText],
     [status_group |-> 4, status_text |-> NullText, short_status_text |-> "Ended"],
     [status_group |-> 6, status_text |-> "Cancelled", short_status_text |-> NullText]}

\* rows of the team of any status, starting now or earlier (0) or later
UpcomingRows ==
    {f @@ st @@ [start_time |-> t] : f \in FixtureRows, st \in Statuses, t \in 0..2}

UpcomingLists ==
    {[i \in 1..Len(l) |-> l[i] @@ [id |-> i]] :
        l \in UNION {[1..k -> UpcomingRows] : k \in 0..MaxUpcoming}}

\* LOWER(text) of the status texts
LOWER(text) ==
    CASE text = "Ended" -> "ended"
      [] text = "Scheduled" -> "scheduled"
      [] text = "Cancelled" -> "cancelled"
      [] OTHER -> text

\* COALESCE(a, b, '') of text columns
CoalesceText(a, b) == IF a # NullText THEN a ELSE IF b # NullText THEN b ELSE ""

\* the fixtures query: what fixturesRes.rows may be. Rows of one start_time
\* come in either order.
fixturesRes(table, teamExternalId, fixtures) ==
    LET sel == {i \in DOMAIN table :
                   /\ \/ table[i].home_team_external_id = teamExternalId
                      \/ table[i].away_team_external_id = teamExternalId
                   /\ LOWER(CoalesceText(table[i].status_text,
                                         table[i].short_status_text)) # "ended"
                   /\ table[i].start_time > now}
        n == Cardinality(sel)
        orders == {o \in [1..n -> sel] :
                      /\ \A a, b \in 1..n : a # b => o[a] # o[b]
                      /\ \A a, b \in 1..n :
                            a < b => table[o[a]].start_time <= table[o[b]].start_time}
    IN {Limit([k \in 1..n |-> table[o[k]]], fixtures) : o \in orders}

\* the opts of a call; <<>> is an option left out, <<v>> one given as v
FixtureOpts ==
    [fixtures : {0, 2}, oppMatches : {1}, recentOppMatches : {1},
     alpha : {<<0, 1>>, <<1, 2>>, <<3, 2>>},
     enabled : {<<>>, <<FALSE>>},
     homeFactor : {<<>>, <<<<1, 2>>>>},
     awayFactor : {<<>>, <<<<11, 10>>>>}]

\* a quotient of whole hundredths, in hundredths
Hundredths(q) == (100 * q[1]) \div q[2]

\* labelDifficulty(score), the score in hundredths
labelDifficulty(score) ==
    IF score < 120 THEN "Easy" ELSE IF score < 155 THEN "Medium" ELSE "Hard"

\* the sets of sequences whose i-th entry is drawn from sets[i]
RECURSIVE SeqsOf(_)
SeqsOf(sets) ==
    IF sets = <<>> THEN {<<>>}
    ELSE {<<h>> \o t : h \in sets[1], t \in SeqsOf(Tail(sets))}

\* the normalised parameters of getTeamFixtureDifficulty; alpha and the
\* factors in hundredths
FixtureParams(opts) ==
    LET homeAwayEnabled == IF opts.enabled = <<>> THEN TRUE ELSE opts.enabled[1]
    IN [fixtures |-> Hundredths(clamp(<<opts.fixtures, 1>>, <<1, 1>>, <<10, 1>>)) \div 100,
        oppMatches |-> Hundredths(clamp(<<opts.oppMatches, 1>>, <<5, 1>>, <<50, 1>>)) \div 100,
        recentOppMatches |->
            Hundredths(clamp(<<opts.recentOppMatches, 1>>, <<3, 1>>, <<10, 1>>)) \div 100,
        alpha |-> Hundredths(clamp(opts.alpha, <<0, 1>>, <<1, 1>>)),
        enabled |-> homeAwayEnabled,
        homeFactor |->
            IF homeAwayEnabled
            THEN Hundredths(clamp(IF opts.homeFactor = <<>> THEN <<95, 100>>
                                  ELSE opts.homeFactor[1], <<4, 5>>, <<6, 5>>))
            ELSE 100,
        awayFactor |->
            IF homeAwayEnabled
            THEN Hundredths(clamp(IF opts.awayFactor = <<>> THEN <<105, 100>>
                                  ELSE opts.awayFactor[1], <<4, 5>>, <<6, 5>>))
            ELSE 100]

oppStrengthRawUnscaled(baselinePPG, recentPPG, alpha) ==
    <<100 * baselinePPG + 100 * (recentPPG - baselinePPG), 10000>>

\* opp.baselinePPG + (alpha * deltaPPG), the three in hundredths
oppStrengthRaw(baselinePPG, recentPPG, alpha) ==
    <<100 * baselinePPG + alpha * (recentPPG - baselinePPG), 10000>>

\* the opponent of the team in fixture f
opponentExternalId(f, teamExternalId) ==
    IF f.home_team_external_id = teamExternalId THEN f.away_team_external_id
    ELSE f.home_team_external_id

\* the items one fixture may give from the opponent's cached PPGs opp: the
\* two PPGs come rounded from the helper, the strength and the difficulty
\* are rounded once more
ItemsFrom(f, teamExternalId, opp, p) ==
    LET teamIsHome == f.home_team_external_id = teamExternalId
        deltaPPG == opp.recentPPG - opp.baselinePPG
        raw == oppStrengthRaw(opp.baselinePPG, opp.recentPPG, p.alpha)
        venueFactor == IF teamIsHome THEN p.homeFactor ELSE p.awayFactor
    IN {[match |-> [id |-> f.id, startTime |-> f.start_time,
                    homeAway |-> IF teamIsHome THEN "H" ELSE "A"],
         opponentMetrics |->
             [baselinePPG |-> opp.baselinePPG, baselineMatches |-> opp.baselineMatches,
              recentPPG |-> opp.recentPPG, recentMatches |-> opp.recentMatches,
              deltaPPG |-> deltaPPG, alpha |-> p.alpha, oppStrength |-> s],
         fixtureDifficulty |-> d,
         fixtureLabel |-> labelDifficulty(d)] :
            s \in Rounds(raw),
            d \in Rounds(<<raw[1] * venueFactor, 100 * raw[2]>>)}

\* the items of one fixture over an opponent table that does not change
\* during the call
FixtureItems(f, teamExternalId, oppTable, p) ==
    LET baseline == PpgOf(oppTable, opponentExternalId(f, teamExternalId), p.oppMatches)
        recent == PpgOf(oppTable, opponentExternalId(f, teamExternalId),
                        p.recentOppMatches)
    IN ItemsFrom(f, teamExternalId,
                 [baselinePPG |-> baseline.ppg, baselineMatches |-> baseline.matches,
                  recentPPG |-> recent.ppg, recentMatches |-> recent.matches], p)

\* getTeamFixtureDifficulty(teamId, opts) for the team TeamExt
getTeamFixtureDifficulty(opts) ==
    LET p == FixtureParams(opts)
    IN /\ fin.difficulty = <<>>
       /\ \E rows \in fixturesRes(fin.fixtures, TeamExt, p.fixtures) :
          \E items \in SeqsOf([i \in 1..Len(rows) |->
                                  FixtureItems(rows[i], TeamExt, fin.opp, p)]) :
            \E runDifficulty \in
                    IF Len(items) # 0
                    THEN Rounds(<<SumOf(items, "fixtureDifficulty"), 100 * Len(items)>>)
                    ELSE {0} :
               fin' = [fin EXCEPT !.difficulty =
                          <<[params |-> p,
                             run |-> [difficultyScore |-> runDifficulty,
                                      label |-> labelDifficulty(runDifficulty),
                                      countedFixtures |-> Len(items)],
                             items |-> items]>>]
       /\ UNCHANGED sessVars

\* ------------------- getTeamFixtureDifficulty, one await at a time
\* fin holds the finished matches of each opponent, latest first (results),
\* the team's upcoming matches (fixtures), the calls in flight with their
\* local variables (calls) and the calls started (started). A call's queries
\* lists the helper queries it has issued.
MaxResults == 1       \* matches that end while the calls run
MaxCacheFixtures == 3
ThirdExt == OtherExt + 1
Opponents == {OtherExt, ThirdExt}

CacheFixtureRows ==
    FixtureRows \cup {[home_team_external_id |-> TeamExt,
                       away_team_external_id |-> ThirdExt]}

\* the opts of the calls: three fixtures, the default weights
CacheOpts ==
    [fixtures |-> 3, oppMatches |-> 1, recentOppMatches |-> 1, alpha |-> <<1, 2>>,
     enabled |-> <<>>, homeFactor |-> <<>>, awayFactor |-> <<>>]

\* new Map()
NewMap == [o \in Opponents |-> <<>>]

cacheGetMiss(cache, opponent) == <<>>

\* cache.get(opponentExternalId); <<>> is undefined
cacheGet(cache, opponent) == cache[opponent]

DifficultyIdle == [pc |-> "idle", params |-> <<>>, rows |-> <<>>, i |-> 1,
                   cache |-> NewMap, baseline |-> <<>>, items |-> <<>>,
                   queries |-> <<>>, run |-> <<>>]

\* steps 1 and 2 of getTeamFixtureDifficulty: the parameters, the fixtures
\* query, the empty cache
difficultyStart(p, opts) ==
    /\ fin.calls[p].pc \in {"idle", "done"}
    /\ \A q \in Procs : q < p => fin.calls[q].pc \notin {"idle", "done"}
    /\ fin.started < MaxCalls
    /\ \E rows \in fixturesRes(fin.fixtures, TeamExt, FixtureParams(opts).fixtures) :
          fin' = [fin EXCEPT !.started = @ + 1,
                             !.calls[p] = [DifficultyIdle EXCEPT
                                             !.pc = "loop",
                                             !.params = FixtureParams(opts),
                                             !.rows = rows]]
    /\ UNCHANGED sessVars

\* for (const f of fixturesRes.rows): cache.get, and after the last fixture
\* the run difficulty and the response
difficultyLoop(p) ==
    LET c == fin.calls[p]
    IN /\ c.pc = "loop"
       /\ IF c.i > Len(c.rows)
          THEN \E runDifficulty \in
                     IF Len(c.items) # 0
                     THEN Rounds(<<SumOf(c.items, "fixtureDifficulty"), 100 * Len(c.items)>>)
                     ELSE {0} :
                 fin' = [fin EXCEPT
                           !.calls[p].pc = "done",
                           !.calls[p].run = <<[difficultyScore |-> runDifficulty,
                                               label |-> labelDifficulty(runDifficulty),
                                               countedFixtures |-> Len(c.items)]>>]
          ELSE fin' = [fin EXCEPT !.calls[p].pc =
                          IF cacheGet(c.cache, opponentExternalId(c.rows[c.i], TeamExt)) = <<>>
                          THEN "baseline" ELSE "item"]
       /\ UNCHANGED sessVars

\* await getTeamPpgFromLastEndedMatches(opponentExternalId, oppMatches)
difficultyBaseline(p) ==
    LET c == fin.calls[p]
        o == opponentExternalId(c.rows[c.i], TeamExt)
    IN /\ c.pc = "baseline"
       /\ fin' = [fin EXCEPT
                    !.calls[p].pc = "recent",
                    !.calls[p].queries = Append(@, <<o, "baseline">>),
                    !.calls[p].baseline = <<PpgOf(fin.results[o], o, c.params.oppMatches)>>]
       /\ UNCHANGED sessVars

\* await getTeamPpgFromLastEndedMatches(opponentExternalId, recentOppMatches)
\* and cache.set(opponentExternalId, opp)
difficultyRecent(p) ==
    LET c == fin.calls[p]
        o == opponentExternalId(c.rows[c.i], TeamExt)
        recent == PpgOf(fin.results[o], o, c.params.recentOppMatches)
    IN /\ c.pc = "recent"
       /\ fin' = [fin EXCEPT
                    !.calls[p].pc = "item",
                    !.calls[p].queries = Append(@, <<o, "recent">>),
                    !.calls[p].baseline = <<>>,
                    !.calls[p].cache[o] =
                        <<[baselinePPG |-> c.baseline[1].ppg,
                           baselineMatches |-> c.baseline[1].matches,
                           recentPPG |-> recent.ppg,
                           recentMatches |-> recent.matches]>>]
       /\ UNCHANGED sessVars

\* the rest of the loop body: the strength, the difficulty, items.push
difficultyItem(p) ==
    LET c == fin.calls[p]
        o == opponentExternalId(c.rows[c.i], TeamExt)
    IN /\ c.pc = "item"
       /\ \E item \in ItemsFrom(c.rows[c.i], TeamExt, c.cache[o][1], c.params) :
             fin' = [fin EXCEPT !.calls[p].pc = "loop",
                                !.calls[p].i = @ + 1,
                                !.calls[p].items = Append(@, item)]
       /\ UNCHANGED sessVars

\* a match of opponent o ends and its result is stored (upsertMatch)
resultStored(o, winner) ==
    /\ Len(fin.results[OtherExt]) + Len(fin.results[ThirdExt]) < MaxResults
    /\ fin' = [fin EXCEPT !.results[o] =
                  <<[winner |-> winner, home_team_external_id |-> TeamExt,
                     away_team_external_id |-> o]>> \o @]
    /\ UNCHANGED sessVars

\* ------------------------- accounts: email verification and email opt-in
\* One registered user and the verification token of the link mailed to it.
\* fin holds the committed rows (users, token), the sessions of the pooled
\* connections with what their open transaction has written (conns), the
\* pool's idle list (idle), the handlers in flight (procs), the requests
\* started (calls) and the consumeEmailVerificationToken calls that returned
\* the user id (consumed).
AcctClosed == [open |-> FALSE, inTx |-> FALSE, used_at |-> FALSE,
               email_verified |-> FALSE, email_opt_in |-> "none",
               tokenLock |-> FALSE, userLock |-> FALSE]

AcctIdleFrame == [op |-> "none", pc |-> "idle", conn |-> 0, emailOptIn |-> FALSE,
                  verified |-> FALSE, status |-> 0]

AcctCanStart(p) ==
    /\ fin.procs[p].pc \in {"idle", "done"}
    /\ \A q \in Procs : q < p => fin.procs[q].pc \notin {"idle", "done"}
    /\ fin.calls < MaxCalls

\* pool.query, first half (see Checkout)
acctCheckout(p) ==
    /\ fin.procs[p].pc \notin {"idle", "done"}
    /\ fin.procs[p].conn = 0
    /\ \/ /\ fin.idle # <<>>
          /\ fin' = [fin EXCEPT !.procs[p].conn = fin.idle[Len(fin.idle)],
                                !.idle = SubSeq(@, 1, Len(@) - 1)]
       \/ /\ fin.idle = <<>>
          /\ Cardinality({c \in Conns : fin.conns[c].open}) < PoolMax
          /\ LET c == CHOOSE x \in Conns : /\ ~fin.conns[x].open
                                            /\ \A y \in Conns : ~fin.conns[y].open => x <= y
             IN fin' = [fin EXCEPT !.procs[p].conn = c, !.conns[c] = [AcctClosed EXCEPT !.open = TRUE]]
    /\ UNCHANGED sessVars

\* another session holds the lock on the token row ("tokenLock") or on the
\* user row ("userLock")
AcctLockedByOther(c, lock) == \E d \in Conns : d # c /\ fin.conns[d][lock]

\* used_at IS NOT NULL, email_verified as the session of connection c sees them
UsedIn(c) == fin.token.used_at \/ fin.conns[c].used_at
VerifiedIn(c) == fin.users.email_verified \/ fin.conns[c].email_verified

\* pool.query, second half: the statement has run, the client is released
AcctRan(p, pc, f) ==
    [f EXCEPT !.procs[p].pc = pc, !.procs[p].conn = 0,
              !.idle = Append(@, fin.procs[p].conn)]

\* the same for the last statement of a handler, which answers with status
AcctDone(p, status, f) ==
    [AcctRan(p, "done", f) EXCEPT !.procs[p].status = status]

\* COMMIT on connection c: what its transaction wrote becomes the rows
AcctCommit(c, f) ==
    [f EXCEPT
        !.token.used_at = @ \/ fin.conns[c].used_at,
        !.users.email_verified = @ \/ fin.conns[c].email_verified,
        !.users.email_opt_in = IF fin.conns[c].email_opt_in = "none" THEN @
                               ELSE fin.conns[c].email_opt_in = "on",
        !.conns[c] = [AcctClosed EXCEPT !.open = TRUE]]

\* GET /api/auth/verify-email?token=...  with the token of the link
verifyEmail(p) ==
    /\ AcctCanStart(p)
    /\ fin' = [fin EXCEPT !.procs[p] = [AcctIdleFrame EXCEPT !.op = "verifyEmail",
                                                             !.pc = "BEGIN"],
                          !.calls = @ + 1]
    /\ UNCHANGED sessVars

\* consumeEmailVerificationToken: pool.query("BEGIN")
consumeBegin(p) ==
    /\ fin.procs[p].pc = "BEGIN" /\ fin.procs[p].conn # 0
    /\ fin' = AcctRan(p, "SELECT", [fin EXCEPT !.conns[fin.procs[p].conn].inTx = TRUE])
    /\ UNCHANGED sessVars

\* SELECT user_id ... WHERE token_hash = $1 AND used_at IS NULL AND
\* expires_at > now() FOR UPDATE: waits for a lock another session holds
consumeSelect(p) ==
    LET c == fin.procs[p].conn
    IN /\ fin.procs[p].pc = "SELECT" /\ fin.procs[p].conn # 0
       /\ fin.token.used_at \/ ~AcctLockedByOther(c, "tokenLock")
       /\ fin' = IF UsedIn(c)
                 THEN AcctRan(p, "ROLLBACK", fin)
                 ELSE AcctRan(p, "UPDATE",
                              [fin EXCEPT !.conns[c].tokenLock = fin.conns[c].inTx])
       /\ UNCHANGED sessVars

\* if (!row) { ROLLBACK; return null }: the controller answers 400
consumeRollback(p) ==
    /\ fin.procs[p].pc = "ROLLBACK" /\ fin.procs[p].conn # 0
    /\ fin' = AcctDone(p, 400, [fin EXCEPT !.conns[fin.procs[p].conn] = [AcctClosed EXCEPT !.open = TRUE]])
    /\ UNCHANGED sessVars

\* UPDATE email_verification_tokens SET used_at = now() WHERE token_hash = $1
\* AND used_at IS NULL
consumeUpdate(p) ==
    LET c == fin.procs[p].conn
    IN /\ fin.procs[p].pc = "UPDATE" /\ fin.procs[p].conn # 0
       /\ fin.token.used_at \/ ~AcctLockedByOther(c, "tokenLock")
       /\ fin' = AcctRan(p, "COMMIT",
                    IF UsedIn(c) THEN fin
                    ELSE IF fin.conns[c].inTx
                         THEN [fin EXCEPT !.conns[c].used_at = TRUE,
                                          !.conns[c].tokenLock = TRUE]
                         ELSE [fin EXCEPT !.token.used_at = TRUE])
       /\ UNCHANGED sessVars

\* pool.query("COMMIT"); return Number(row.user_id)
consumeCommit(p) ==
    /\ fin.procs[p].pc = "COMMIT" /\ fin.procs[p].conn # 0
    /\ fin' = AcctRan(p, "MARK",
                 [AcctCommit(fin.procs[p].conn, fin) EXCEPT !.consumed = @ + 1])
    /\ UNCHANGED sessVars

\* markUserEmailVerified: UPDATE users SET email_verified = true WHERE id = $1
markUserEmailVerified(p) ==
    LET c == fin.procs[p].conn
    IN /\ fin.procs[p].pc = "MARK" /\ fin.procs[p].conn # 0
       /\ ~AcctLockedByOther(c, "userLock")
       /\ fin' = AcctDone(p, 200,
                    IF fin.conns[c].inTx
                    THEN [fin EXCEPT !.conns[c].email_verified = TRUE,
                                     !.conns[c].userLock = TRUE]
                    ELSE [fin EXCEPT !.users.email_verified = TRUE])
       /\ UNCHANGED sessVars

\* PATCH /api/me/settings {emailOptIn}
updateMySettings(p, emailOptIn) ==
    /\ AcctCanStart(p)
    /\ fin' = [fin EXCEPT !.procs[p] = [AcctIdleFrame EXCEPT !.op = "updateMySettings",
                                                             !.pc = "READ",
                                                             !.emailOptIn = emailOptIn],
                          !.calls = @ + 1]
    /\ UNCHANGED sessVars

\* updateEmailOptIn: SELECT email_verified FROM users WHERE id = $1, then the
\* 403 of an unverified user who asks for true
optInSelect(p) ==
    LET c == fin.procs[p].conn
    IN /\ fin.procs[p].pc = "READ" /\ fin.procs[p].conn # 0
       /\ fin' = IF fin.procs[p].emailOptIn /\ ~VerifiedIn(c)
                 THEN AcctDone(p, 403, fin)
                 ELSE AcctRan(p, "WRITE",
                              [fin EXCEPT !.procs[p].verified = VerifiedIn(c)])
       /\ UNCHANGED sessVars

\* updateEmailOptIn: UPDATE users SET email_opt_in = $2 WHERE id = $1
optInUpdate(p) ==
    LET c == fin.procs[p].conn
    IN /\ fin.procs[p].pc = "WRITE" /\ fin.procs[p].conn # 0
       /\ ~AcctLockedByOther(c, "userLock")
       /\ fin' = AcctDone(p, 200,
                    IF fin.conns[c].inTx
                    THEN [fin EXCEPT !.conns[c].email_opt_in =
                                        IF fin.procs[p].emailOptIn THEN "on" ELSE "off",
                                     !.conns[c].userLock = TRUE]
                    ELSE [fin EXCEPT !.users.email_opt_in = fin.procs[p].emailOptIn])
       /\ UNCHANGED sessVars

\* a statement of handler p waits for a row lock
AcctBlocked(p) ==
    /\ fin.procs[p].conn # 0
    /\ \/ /\ fin.procs[p].pc \in {"SELECT", "UPDATE"}
          /\ ~fin.token.used_at
          /\ AcctLockedByOther(fin.procs[p].conn, "tokenLock")
       \/ /\ fin.procs[p].pc \in {"MARK", "WRITE"}
          /\ AcctLockedByOther(fin.procs[p].conn, "userLock")

\* idleTimeoutMillis (see IdleTimeout): an idle client is closed while no
\* request makes progress, and the server rolls its transaction back
acctIdleTimeout ==
    \E i \in 1..Len(fin.idle) :
        /\ \A p \in Procs : fin.procs[p].pc \in {"idle", "done"} \/ AcctBlocked(p)
        /\ fin' = [fin EXCEPT
                     !.idle = SubSeq(@, 1, i - 1) \o SubSeq(@, i + 1, Len(@)),
                     !.conns[fin.idle[i]] = AcctClosed]
        /\ UNCHANGED sessVars

\* ------------------------------------------- admin EPL sync (syncEplMini)
\* fin holds the sync requests in flight (runs), the admins whose daily
\* quota is spent (limited), the requests started (calls) and the statements
\* the runs have sent to the pool, in order (sent).
SyncTeams == 2
MAX_API_CALLS == 100

SyncIdle == [pc |-> "idle", admin |-> 0, team |-> 1, byId |-> "none",
             apiCalls |-> 0, ok |-> 0, status |-> 0]

\* the middleware chain of POST /sync-games, then runEplMiniSync: sundayOnly
\* answers 403 on another weekday; adminSyncRateLimiter answers 429 when the
\* admin's quota of one run a day is spent and lets the request through when
\* Upstash fails
syncGames(p, admin, weekday, upstash) ==
    /\ fin.runs[p].pc \in {"idle", "done"}
    /\ \A q \in Procs : q < p => fin.runs[q].pc \notin {"idle", "done"}
    /\ fin.calls < MaxCalls
    /\ LET success == admin \notin fin.limited
           status == IF weekday # "Sun" THEN 403
                     ELSE IF upstash = "ok" /\ ~success THEN 429 ELSE 0
       IN fin' = [fin EXCEPT
                    !.calls = @ + 1,
                    !.limited = IF weekday = "Sun" /\ upstash = "ok"
                                THEN @ \cup {admin} ELSE @,
                    !.runs[p] = [SyncIdle EXCEPT
                                   !.admin = admin,
                                   !.status = status,
                                   !.pc = IF status = 0 THEN "fetch" ELSE "done"]]
    /\ UNCHANGED sessVars

\* one turn of for (const teamId of EPL_TEAMS): the two API calls, then
\* byId.set for the results and after them the fixtures; after the last team
\* the run goes on to pool.query("BEGIN")
syncFetch(p, fx, rs) ==
    LET r == fin.runs[p]
        seen == IF fx THEN "fixture" ELSE IF rs THEN "result" ELSE r.byId
    IN /\ r.pc = "fetch"
       /\ fin' = IF r.apiCalls + 2 > MAX_API_CALLS
                 THEN [fin EXCEPT !.runs[p].pc = "BEGIN"]
                 ELSE [fin EXCEPT
                         !.runs[p].apiCalls = @ + 2,
                         !.runs[p].byId = seen,
                         !.runs[p].team = @ + 1,
                         !.runs[p].pc = IF r.team = SyncTeams THEN "BEGIN" ELSE "fetch"]
       /\ UNCHANGED sessVars

\* await pool.query("BEGIN")
syncBegin(p) ==
    /\ fin.runs[p].pc = "BEGIN"
    /\ fin' = [fin EXCEPT !.sent = Append(@, <<p, "BEGIN">>),
                          !.runs[p].pc = IF fin.runs[p].byId = "none"
                                         THEN "COMMIT" ELSE "upsert"]
    /\ UNCHANGED sessVars

\* for (const g of all) await upsertMatch(g)
syncUpsert(p) ==
    /\ fin.runs[p].pc = "upsert"
    /\ fin' = [fin EXCEPT !.sent = Append(@, <<p, fin.runs[p].byId>>),
                          !.runs[p].ok = @ + 1,
                          !.runs[p].pc = "COMMIT"]
    /\ UNCHANGED sessVars

\* await pool.query("COMMIT"); res.json({message: "Sync complete", ...})
syncCommit(p) ==
    /\ fin.runs[p].pc = "COMMIT"
    /\ fin' = [fin EXCEPT !.sent = Append(@, <<p, "COMMIT">>),
                          !.runs[p].pc = "done",
                          !.runs[p].status = 200]
    /\ UNCHANGED sessVars

\* the store after user 1 has logged in once (token 1 is in that client's
\* cookie) and the pool's clients have idled out
InitSession ==
    /\ now = 0
    /\ refresh_tokens = (1 :> [user_id |-> 1, token_hash |-> sha256(randomBytes(1)),
                               expires_at |-> RefreshTtl, revoked_at |-> NULL,
                               xid |-> 0, rby |-> 0])
    /\ nextId = 2
    /\ conns = [c \in Conns |-> ClosedConn]
    /\ idle = <<>>
    /\ procs = [p \in Procs |-> IdleFrame]
    /\ nextTok = 2
    /\ calls = 0
    /\ known = {randomBytes(1)}
    /\ rotOk = [t \in 1..UnknownTok |-> 0]
    /\ loggedOut = {}
    /\ faults = 0

Init == InitSession /\ fin = <<>>

Next ==
    \/ \E p \in Procs, u \in Users : login(p, u)
    \/ \E p \in Procs : storeRefreshToken(p)
    \/ \E p \in Procs, t \in Presentable \cup {NoCookie} : logout(p, t)
    \/ \E p \in Procs : revokeRefreshToken(p)
    \/ \E p \in Procs, t \in Presentable : validate(p, t)
    \/ \E p \in Procs : isRefreshTokenValid(p)
    \/ \E p \in Procs, t \in Presentable \cup {NoCookie} : refresh(p, t)
    \/ \E p \in Procs : rotateBegin(p)
    \/ \E p \in Procs : rotateSelect(p)
    \/ \E p \in Procs : rotateUpdate(p)
    \/ \E p \in Procs : rotateInsert(p)
    \/ \E p \in Procs : rotateCommit(p)
    \/ \E p \in Procs : getUserById(p)
    \/ \E p \in Procs : rotateRollbackInvalid(p)
    \/ \E p \in Procs : rotateRollbackCatch(p)
    \/ \E p \in Procs : Checkout(p)
    \/ IdleTimeout
    \/ Tick

Spec == Init /\ [][Next]_vars

NextFault == Next \/ \E p \in Procs : queryFails(p)

SpecFault == Init /\ [][NextFault]_vars

\* the analytics endpoints over every matches table of the bound
InitForm ==
    /\ InitSession
    /\ fin \in [matches : MatchLists, form : {<<>>}, formLimit : {0},
                opp : {<<>>}, oppLimit : {0}]

NextForm ==
    \/ \E limit \in 1..MaxMatches : getTeamForm(limit)
    \/ \E limit \in 1..MaxMatches : getTeamPpgFromLastEndedMatches(limit)

SpecForm == InitForm /\ [][NextForm]_vars

\* one match row seen from both of its teams
InitMatch ==
    /\ InitSession
    /\ fin \in [match : MatchRows, persp : {[t \in {TeamExt, OtherExt} |-> <<>>]}]

NextMatch == \E t \in {TeamExt, OtherExt} : perspective(t)

SpecMatch == InitMatch /\ [][NextMatch]_vars

\* the trends endpoint over every table of up to MaxLong of the FormRows
InitTrend ==
    /\ InitSession
    /\ fin \in [matches : LongLists, trend : {<<>>}]

NextTrend ==
    \E matchesRaw \in MatchesQueries, windowRaw \in WindowQueries :
        getTeamTrends(matchesRaw, windowRaw)

SpecTrend == InitTrend /\ [][NextTrend]_vars

\* the fixture-difficulty service over every opponent table of up to MaxOpp
\* rows and every list of up to MaxFixtures upcoming matches
InitFixture ==
    /\ InitSession
    /\ fin \in [opp : OppLists,
                 fixtures : {ScheduledRows(l) : l \in FixtureLists},
                 difficulty : {<<>>}]

NextFixture == \E opts \in FixtureOpts : getTeamFixtureDifficulty(opts)

SpecFixture == InitFixture /\ [][NextFixture]_vars

\* the form endpoint over long tables: up to MaxLong of the FormRows, and
\* those followed by PadLen older matches of one kind
InitRating ==
    /\ InitSession
    /\ fin \in [matches : LongLists \cup
                           {t \o [i \in 1..PadLen |-> r] : t \in LongLists, r \in FormRows},
                 form : {<<>>}, formLimit : {0}]

NextRating == \E limit \in {10, 50} : getTeamForm(limit)

SpecRating == InitRating /\ [][NextRating]_vars

\* the fixture-difficulty service over every matches table of up to
\* MaxUpcoming rows of the team, of any status and start time, called with
\* the default weights
UpcomingOpts ==
    {o \in FixtureOpts :
        o.alpha = <<1, 2>> /\ o.enabled = <<>> /\ o.homeFactor = <<>> /\ o.awayFactor = <<>>}

InitUpcoming ==
    /\ InitSession
    /\ fin \in [opp : {t \in OppLists : Len(t) <= 1},
                 fixtures : UpcomingLists,
                 difficulty : {<<>>}]

NextUpcoming == \E opts \in UpcomingOpts : getTeamFixtureDifficulty(opts)

SpecUpcoming == InitUpcoming /\ [][NextUpcoming]_vars

\* the account handlers after register: the user row has the column
\* defaults, the verification token is unused, the pool has no client open
InitAccount ==
    /\ InitSession
    /\ fin = [users |-> [email_verified |-> FALSE, email_opt_in |-> FALSE],
              token |-> [used_at |-> FALSE],
              conns |-> [c \in Conns |-> AcctClosed],
              idle |-> <<>>,
              procs |-> [p \in Procs |-> AcctIdleFrame],
              calls |-> 0,
              consumed |-> 0]

NextAccount ==
    \/ \E p \in Procs :
          \/ verifyEmail(p)
          \/ \E emailOptIn \in BOOLEAN : updateMySettings(p, emailOptIn)
          \/ acctCheckout(p)
          \/ consumeBegin(p)
          \/ consumeSelect(p)
          \/ consumeRollback(p)
          \/ consumeUpdate(p)
          \/ consumeCommit(p)
          \/ markUserEmailVerified(p)
          \/ optInSelect(p)
          \/ optInUpdate(p)
    \/ acctIdleTimeout

SpecAccount == InitAccount /\ [][NextAccount]_vars

\* the admin sync route: no run in flight, no quota spent
InitSync ==
    /\ InitSession
    /\ fin = [runs |-> [p \in Procs |-> SyncIdle],
              limited |-> {},
              calls |-> 0,
              sent |-> <<>>]

NextSync ==
    \E p \in Procs :
        \/ \E admin \in Users, weekday \in {"Sun", "Mon"}, upstash \in {"ok", "error"} :
              syncGames(p, admin, weekday, upstash)
        \/ \E fx \in BOOLEAN, rs \in BOOLEAN : syncFetch(p, fx, rs)
        \/ syncBegin(p)
        \/ syncUpsert(p)
        \/ syncCommit(p)

SpecSync == InitSync /\ [][NextSync]_vars

\* the fixture-difficulty service called while results come in
InitCache ==
    /\ InitSession
    /\ fin \in [results : {[o \in Opponents |-> <<>>]},
                 fixtures : {ScheduledRows(l) :
                                l \in UNION {[1..k -> CacheFixtureRows] :
                                                k \in 0..MaxCacheFixtures}},
                 calls : {[p \in Procs |-> DifficultyIdle]},
                 started : {0}]

NextCache ==
    \/ \E p \in Procs :
          \/ difficultyStart(p, CacheOpts)
          \/ difficultyLoop(p)
          \/ difficultyBaseline(p)
          \/ difficultyRecent(p)
          \/ difficultyItem(p)
    \/ \E o \in Opponents, winner \in {1, 2} : resultStored(o, winner)

SpecCache == InitCache /\ [][NextCache]_vars

\* the fixture-difficulty service called with weights on both sides of their
\* ranges: alpha below 0 and above 1, venue factors below 0.8 and above 1.2
ClampOpts ==
    [fixtures : {0, 2}, oppMatches : {1}, recentOppMatches : {1},
     alpha : {<<0 - 1, 2>>, <<1, 4>>, <<3, 2>>},
     enabled : {<<>>, <<FALSE>>},
     homeFactor : {<<>>, <<<<1, 2>>>>, <<<<3, 2>>>>},
     awayFactor : {<<>>, <<<<1, 2>>>>, <<<<3, 2>>>>}]

SpecClamp ==
    InitFixture /\ [][\E opts \in ClampOpts : getTeamFixtureDifficulty(opts)]_vars

TypeOK == now \in 0..MaxTime /\ calls \in 0..MaxCalls

\* ------------------------------------------------------------------ claims
\* rotateRefreshToken has returned { userId, newRefreshToken } to refresh
RotateOk(p) == procs[p].op = "refresh" /\ procs[p].cookie = "set"

\* rotateRefreshToken has returned or thrown
RotateReturned(p) ==
    /\ procs[p].op = "refresh"
    /\ procs[p].raw # NoCookie
    /\ procs[p].pc \in {"GETUSER", "done"}

\* C1: of all rotate(T) calls on one stored token T, however their statements
\* interleave on the pool, at most one succeeds and every other one fails
\* with REFRESH_INVALID.
C1_AtMostOneRotation ==
    /\ \A t \in DOMAIN rotOk : rotOk[t] <= 1
    /\ \A p \in Procs :
          RotateReturned(p) /\ ~RotateOk(p) => procs[p].err = "REFRESH_INVALID"

\* the rotation of call frame p has left, in the committed table, the old
\* session revoked by it without its new session, or the new one without the
\* revocation
Partial(p) ==
    LET revoked == \E r \in Committed :
                      /\ refresh_tokens[r].token_hash = sha256(procs[p].raw)
                      /\ refresh_tokens[r].revoked_at # NULL
                      /\ refresh_tokens[r].rby = procs[p].newTok
        inserted == \E r \in Committed :
                      refresh_tokens[r].token_hash = sha256(procs[p].newTok)
    IN revoked # inserted

\* C2: when a database statement inside rotate has failed, the error has
\* propagated (refresh answers 500, sets no cookie) and the store shows no
\* partial rotation: neither the old session revoked without the new one
\* inserted, nor the new one inserted without the old one revoked.
C2_NoPartialStateAfterFailure ==
    \A p \in Procs :
        RotateReturned(p) /\ procs[p].err = "DB_ERROR" /\ ~RotateOk(p) =>
            /\ procs[p].status = 500
            /\ ~Partial(p)

\* C3: once a rotate(tokenA) call has succeeded, every rotate(tokenA) call
\* started later fails with REFRESH_INVALID, whoever makes it.
C3_RotationSingleUse ==
    \A p \in Procs :
        RotateReturned(p) /\ procs[p].preRotated =>
            ~RotateOk(p) /\ procs[p].err = "REFRESH_INVALID"

\* C4: a rotate(rawToken) that looks its session up while the store holds it
\* Active succeeds, and the store it leaves has the old row Revoked and exactly
\* one new row, Active, of the same user, under the hash of the returned token.
C4_RotateActiveSession ==
    \A p \in Procs :
        /\ procs[p].op = "refresh"
        /\ procs[p].selActive
        /\ procs[p].pc \in {"ROLLBACK_INVALID", "ROLLBACK_CATCH", "GETUSER", "done"}
        => RotateOk(p) /\ procs[p].post

\* C5: rotate(rawToken) fails with REFRESH_INVALID whenever, when it is
\* called, no session row has the token's hash, or the row is already
\* revoked, or its expiry time has passed.
C5_InvalidTokenRejected ==
    \A p \in Procs :
        RotateReturned(p) /\ procs[p].preInvalid =>
            ~RotateOk(p) /\ procs[p].err = "REFRESH_INVALID"

\* the step in which the UPDATE of revokeRefreshToken runs for frame p
RevokeStep(p) ==
    procs[p].pc = "REVOKE" /\ procs[p].conn # 0 /\ procs'[p].pc = "done"

\* C6: revoke is idempotent: a revoke(token) after a completed revoke(token),
\* and a revoke of a token no row carries, leave the table as it is (the
\* session stays Revoked, its revoked_at is not rewritten) and raise no error.
C6_RevokeIdempotent ==
    [][\A p \in Procs :
          RevokeStep(p) =>
             /\ procs'[p].status = 200 /\ procs'[p].err = ""
             /\ (procs[p].raw \in loggedOut \/ RowsOf(procs[p].raw) = {})
                   => refresh_tokens' = refresh_tokens
             /\ procs[p].raw \in loggedOut =>
                   \A r \in DOMAIN refresh_tokens' :
                      /\ refresh_tokens'[r].xid = 0
                      /\ refresh_tokens'[r].token_hash = sha256(procs[p].raw)
                      => refresh_tokens'[r].revoked_at # NULL]_vars

\* the step in which rotate (for refresh) or validate succeeds for frame p
SucceedsStep(p) ==
    \/ /\ procs[p].op = "refresh" /\ procs[p].pc = "COMMIT"
       /\ procs'[p].cookie = "set"
    \/ /\ procs[p].op = "validate" /\ procs[p].pc = "VALIDATE"
       /\ procs'[p].pc = "done" /\ procs'[p].userId # NULL

\* C7: there is no transition out of Revoked: a row the table holds revoked
\* stays in the table, revoked, with the same revoked_at, and from then on no
\* validate and no rotate on its token succeeds.
C7_RevokedIsFinal ==
    [][/\ \A r \in Committed :
             refresh_tokens[r].revoked_at # NULL =>
                /\ r \in DOMAIN refresh_tokens'
                /\ refresh_tokens'[r] = refresh_tokens[r]
       /\ \A p \in Procs :
             SucceedsStep(p) =>
                \A r \in CommittedRevoked(procs[p].raw) :
                   procs[p].op = "refresh" /\
                   refresh_tokens[r].rby = procs[p].newTok]_vars

\* the part of C7 that is about the rows alone
C7_RevokedRowStays ==
    [][\A r \in Committed :
          refresh_tokens[r].revoked_at # NULL =>
             /\ r \in DOMAIN refresh_tokens'
             /\ refresh_tokens'[r] = refresh_tokens[r]]_vars

\* C8: for each raw token value, at most one session row with that token's
\* hash is Active (not revoked, not expired), tokens being generated fresh.
C8_OneActiveRowPerToken ==
    \A t \in 1..UnknownTok :
        Cardinality({r \in RowsOf(t) :
                        /\ refresh_tokens[r].revoked_at = NULL
                        /\ refresh_tokens[r].expires_at > now}) <= 1

\* C9: refresh clears the cookie and answers 401 whenever the rotation failed
\* with REFRESH_INVALID, runs the rotation once, and sets a new refresh cookie
\* only when the rotation succeeded.
C9_RefreshInvalidForcesLogout ==
    \A p \in Procs :
        procs[p].op = "refresh" =>
            /\ procs[p].pc = "done" /\ procs[p].err = "REFRESH_INVALID"
                  => procs[p].cookie = "cleared" /\ procs[p].status = 401
            /\ procs[p].cookie = "set"
                  => /\ rotOk[procs[p].raw] >= 1
                     /\ procs[p].newTok \in known
                     /\ procs[p].err # "REFRESH_INVALID"
            /\ procs[p].attempts <= 1

\* a token from a committed rotation has its one Active row next to the
\* revoked row of the token it replaced
C8_Witness ==
    \E p \in Procs :
        /\ RotateOk(p)
        /\ Cardinality(CommittedActive(procs[p].newTok)) = 1
        /\ CommittedRevoked(procs[p].raw) # {}
        /\ Cardinality(Ids) >= 3

\* a refresh whose rotation threw REFRESH_INVALID has answered, and another
\* one has set a new cookie
C9_Witness ==
    \E p, q \in Procs :
        /\ procs[p].op = "refresh" /\ procs[p].pc = "done"
        /\ procs[p].err = "REFRESH_INVALID" /\ procs[p].attempts = 1
        /\ procs[p].status = 401 /\ procs[p].cookie = "cleared"
        /\ procs[q].op = "refresh" /\ procs[q].cookie = "set"

\* C10: for every list of finished matches, the points-per-game value of the
\* form snapshot and the one of the opponent-PPG helper lie between 0 and 3
\* (0 and 300 hundredths).
C10_PpgBounds ==
    /\ fin.form # <<>> => fin.form[1].ppg >= 0 /\ fin.form[1].ppg <= 300
    /\ fin.opp # <<>> => fin.opp[1].ppg >= 0 /\ fin.opp[1].ppg <= 300

\* both calculators have run over three matches, one of them without a
\* determinable winner and the other two won: 3.00 over two counted matches
C10_Witness ==
    /\ Len(fin.matches) = MaxMatches
    /\ fin.form # <<>> /\ fin.opp # <<>>
    /\ fin.formLimit = MaxMatches /\ fin.oppLimit = MaxMatches
    /\ fin.form[1].matches = MaxMatches - 1 /\ fin.form[1].ppg = 300
    /\ fin.opp[1].matches = MaxMatches - 1 /\ fin.opp[1].ppg = 300

\* C11: for a match between two teams with a determined winner (home, away
\* or draw) the points of the two perspectives add up to 3 when the result
\* is decisive and to 2 when it is a draw, and one team's result is W exactly
\* when the other's is L.
C11_PerspectiveSymmetry ==
    LET a == fin.persp[TeamExt]
        b == fin.persp[OtherExt]
    IN a # <<>> /\ b # <<>> /\ fin.match.winner \in {0, 1, 2} =>
          /\ a[1].points + b[1].points = IF fin.match.winner = 0 THEN 2 ELSE 3
          /\ a[1].result = "W" <=> b[1].result = "L"
          /\ b[1].result = "W" <=> a[1].result = "L"

\* an away win seen from both sides: 0 and L for the home team, 3 and W for
\* the away team
C11_Witness ==
    /\ fin.match.winner = 2 /\ fin.match.home_team_external_id = TeamExt
    /\ fin.persp[TeamExt] = <<[points |-> 0, result |-> "L"]>>
    /\ fin.persp[OtherExt] = <<[points |-> 3, result |-> "W"]>>
\* the labels and the ppg, goal-difference, goals-for and goals-against
\* series of a trends response, under either of the key sets it uses
TrendSeries(r) ==
    <<r.labels, r.ppgSeries,
      IF "gdPerMatchSeries" \in DOMAIN r THEN r.gdPerMatchSeries ELSE r.gdSeries,
      IF "gfPerMatchSeries" \in DOMAIN r THEN r.gfPerMatchSeries ELSE r.gfSeries,
      IF "gaPerMatchSeries" \in DOMAIN r THEN r.gaPerMatchSeries ELSE r.gaSeries>>

\* C12: every answered trends request carries labels and four series of one
\* length, matches - window + 1 when matches >= window and 0 otherwise
C12_TrendSeriesLength ==
    \A r \in {fin.trend[k] : k \in DOMAIN fin.trend} :
        r.status = 200 =>
            \A k \in 1..5 :
                IF LessQ(<<r.matches, 1>>, r.window)
                THEN Len(TrendSeries(r)[k]) = 0
                ELSE Len(TrendSeries(r)[k]) * r.window[2]
                        = (r.matches + 1) * r.window[2] - r.window[1]

\* the same for the whole windows only
C12_WholeWindows ==
    \A r \in {fin.trend[k] : k \in DOMAIN fin.trend} :
        (r.status = 200 /\ r.window[2] = 1) =>
            \A k \in 1..5 :
                IF r.matches < r.window[1]
                THEN Len(TrendSeries(r)[k]) = 0
                ELSE Len(TrendSeries(r)[k]) = r.matches - r.window[1] + 1

\* the winner column says that the team won, lost the match
WonBy(m, teamExternalId) ==
    \/ m.winner = 1 /\ m.home_team_external_id = teamExternalId
    \/ m.winner = 2 /\ m.away_team_external_id = teamExternalId

LostBy(m, teamExternalId) ==
    \/ m.winner = 2 /\ m.home_team_external_id = teamExternalId
    \/ m.winner = 1 /\ m.away_team_external_id = teamExternalId

\* the team has exactly three finished matches: two wins, then a defeat as
\* the oldest, and the form request asked for all three
ScenarioA ==
    /\ Len(fin.matches) = 3
    /\ WonBy(fin.matches[1], TeamExt)
    /\ WonBy(fin.matches[2], TeamExt)
    /\ LostBy(fin.matches[3], TeamExt)
    /\ fin.form # <<>>
    /\ fin.formLimit >= 3

\* C13 as stated: three finished matches W, W, L (newest first) give a
\* snapshot with points 7, ppg 2.33 and form [W, W, L]
C13_ScenarioA ==
    ScenarioA =>
        /\ fin.form[1].points = 7
        /\ fin.form[1].ppg = 233
        /\ fin.form[1].form = <<"W", "W", "L">>

\* C13: three finished matches W, W, L (newest first) give a snapshot with
\* points 6 (3 + 3 + 0), ppg 2.00 and form [W, W, L]
C13_ScenarioASixPoints ==
    ScenarioA =>
        /\ fin.form[1].points = 6
        /\ fin.form[1].ppg = 200
        /\ fin.form[1].form = <<"W", "W", "L">>

C13_Witness == ScenarioA /\ fin.form[1].matches = 3

\* the answered fixture-difficulty calls
Answers == {fin.difficulty[k] : k \in DOMAIN fin.difficulty}

ItemsOf(r) == {r.items[k] : k \in DOMAIN r.items}

\* C14: with alpha 0 and the venue adjustment off, each item's difficulty is
\* the item's opponent baseline PPG
C14_NeutralIsBaseline ==
    \A r \in Answers :
        (r.params.alpha = 0 /\ ~r.params.enabled) =>
            \A it \in ItemsOf(r) :
                it.fixtureDifficulty = it.opponentMetrics.baselinePPG

\* such a call with a home and an away fixture against an opponent whose
\* recent PPG is not its baseline PPG
C14_Witness ==
    \E r \in Answers :
        /\ r.params.alpha = 0 /\ ~r.params.enabled
        /\ \E a, b \in ItemsOf(r) :
            /\ a.match.homeAway = "H" /\ b.match.homeAway = "A"
            /\ a.opponentMetrics.recentPPG # a.opponentMetrics.baselinePPG
            /\ a.opponentMetrics.baselinePPG > 0

\* no finished match of the opponent has a winner either side can claim
NoneCounted ==
    \A k \in DOMAIN fin.opp : fin.opp[k].winner \notin {0, 1, 2}

\* C15: against an opponent without counted matches every item has baseline
\* and recent PPG 0, difficulty 0 and the label Easy
C15_NoMatchesIsEasy ==
    NoneCounted =>
        \A r \in Answers : \A it \in ItemsOf(r) :
            /\ it.opponentMetrics.baselinePPG = 0
            /\ it.opponentMetrics.recentPPG = 0
            /\ it.fixtureDifficulty = 0
            /\ it.fixtureLabel = "Easy"

\* an answer with an item, the opponent having finished matches but none
\* with a winner, under a momentum weight and venue factors that are not
\* neutral
C15_Witness ==
    /\ NoneCounted
    /\ Len(fin.opp) > 0
    /\ \E r \in Answers :
        /\ r.items # <<>>
        /\ r.params.alpha > 0
        /\ r.params.homeFactor # 100

\* the same with no finished match at all
C15_WitnessNoRows ==
    fin.opp = <<>> /\ \E r \in Answers : r.items # <<>>

\* a finished match counts when its winner column names a side or a draw
Counts(m) == m.winner \in {0, 1, 2}

PointsFor(m, teamExternalId) ==
    IF WonBy(m, teamExternalId) THEN 3 ELSE IF m.winner = 0 THEN 1 ELSE 0

\* points per game over the counted matches of a sequence of rows, in
\* hundredths; 0 when none counts
RECURSIVE PointsTotal(_, _)
PointsTotal(rows, teamExternalId) ==
    IF rows = <<>> THEN 0
    ELSE PointsFor(Head(rows), teamExternalId) + PointsTotal(Tail(rows), teamExternalId)

CountedPpg(rows, teamExternalId) ==
    LET counted == SelectSeq(rows, Counts)
    IN IF counted = <<>> THEN 0
       ELSE toFixed2(<<PointsTotal(counted, teamExternalId), Len(counted)>>)

\* the rows a trends response was computed from, oldest first
ChronologicalOf(r) ==
    [i \in 1..r.matches |-> Dated(fin.matches)[r.matches + 1 - i]]

\* C16: each rolling PPG is the points of the window's counted matches over
\* their number, a match without winner left out of both (whole windows)
C16_CountedMatchesOnly ==
    \A r \in {fin.trend[k] : k \in DOMAIN fin.trend} :
        (r.status = 200 /\ r.window[2] = 1 /\ r.matches >= r.window[1]) =>
            \A i \in 1..(r.matches - r.window[1] + 1) :
                /\ i \in DOMAIN r.ppgSeries
                /\ r.ppgSeries[i] =
                      CountedPpg(SubSeq(ChronologicalOf(r), i, i + r.window[1] - 1),
                                 TeamExt)

\* the form snapshot and the opponent helper do leave such matches out
C16_FormAndOpponent ==
    /\ \A k \in DOMAIN fin.form :
          fin.form[k].ppg = CountedPpg(Limit(fin.matches, fin.formLimit), TeamExt)
    /\ \A k \in DOMAIN fin.opp :
          fin.opp[k].ppg = CountedPpg(Limit(fin.matches, fin.oppLimit), TeamExt)

\* the form ratings returned
Ratings == {fin.form[k].formRating[1] : k \in {j \in DOMAIN fin.form : fin.form[j].formRating # <<>>}}

\* C17: the signal is Performance-backed exactly when both deltas are
\* positive, Results > performance exactly when deltaPPG is positive and
\* deltaGDPerMatch negative, Consistently struggling exactly when both are
\* negative, Mixed otherwise
C17_ConfirmationSignal ==
    \A r \in Ratings :
        r.confirmation =
            IF r.deltaPPG > 0 /\ r.deltaGDPerMatch > 0 THEN "Performance-backed"
            ELSE IF r.deltaPPG > 0 /\ r.deltaGDPerMatch < 0 THEN "Results > performance"
            ELSE IF r.deltaPPG < 0 /\ r.deltaGDPerMatch < 0 THEN "Consistently struggling"
            ELSE "Mixed"

\* what the code does: a positive deltaPPG with a deltaGDPerMatch of zero is
\* Performance-backed as well
C17_ZeroIsBacked ==
    \A r \in Ratings :
        r.confirmation =
            IF r.deltaPPG > 0 /\ r.deltaGDPerMatch >= 0 THEN "Performance-backed"
            ELSE IF r.deltaPPG > 0 /\ r.deltaGDPerMatch < 0 THEN "Results > performance"
            ELSE IF r.deltaPPG < 0 /\ r.deltaGDPerMatch < 0 THEN "Consistently struggling"
            ELSE "Mixed"

\* the counted matches a form snapshot was computed from, newest first
CountedOf(limit) == SelectSeq(Limit(fin.matches, limit), Counts)

Min(a, b) == IF a < b THEN a ELSE b

\* average points of rows k+1..k+len of a sequence, in hundredths
WindowPpg(rows, k, len) ==
    toFixed2(<<PointsTotal(SubSeq(rows, k + 1, k + len), TeamExt), len>>)

\* C18: recentPPG averages the min(5, n) newest counted matches, baselinePPG
\* the next min(10, n - recentN) ones, or is the overall ppg when there is
\* none
C18_SplitWindows ==
    \A k \in DOMAIN fin.form :
        fin.form[k].formRating # <<>> =>
            LET r == fin.form[k].formRating[1]
                rows == CountedOf(fin.formLimit)
                n == Len(rows)
                recentN == Min(5, n)
                baselineN == Min(10, n - recentN)
            IN /\ fin.form[k].matches = n
               /\ r.recentMatches = recentN
               /\ r.recentPPG = WindowPpg(rows, 0, recentN)
               /\ r.baselinePPG = IF baselineN = 0 THEN fin.form[k].ppg
                                  ELSE WindowPpg(rows, recentN, baselineN)

\* a snapshot over 16 counted matches, the oldest outside the baseline and
\* the two windows of different averages
C18_Witness ==
    \E k \in DOMAIN fin.form :
        /\ fin.form[k].matches = 16
        /\ fin.form[k].formRating # <<>>
        /\ fin.form[k].formRating[1].baselineMatches = 10
        /\ fin.form[k].formRating[1].recentPPG # fin.form[k].formRating[1].baselinePPG

\* a snapshot over at most five counted matches: the baseline is the overall
C18_WitnessNoBaseline ==
    \E k \in DOMAIN fin.form :
        /\ fin.form[k].matches \in 1..5
        /\ fin.form[k].formRating # <<>>
        /\ fin.form[k].formRating[1].baselinePPG > 0

\* the per-match metrics of a trends response's rows, oldest first
MetricsOf(r) ==
    [i \in 1..r.matches |->
        [ppgSeries |-> PointsFor(ChronologicalOf(r)[i], TeamExt),
         gdPerMatchSeries |-> MatchStatOf(ChronologicalOf(r)[i], TeamExt).gd,
         gfPerMatchSeries |-> MatchStatOf(ChronologicalOf(r)[i], TeamExt).gf,
         gaPerMatchSeries |-> MatchStatOf(ChronologicalOf(r)[i], TeamExt).ga,
         start_time |-> ChronologicalOf(r)[i].start_time]]

\* the windows of a response: the start indices i (from 1) with
\* i - 1 <= matches - window, each covering the matches from i up to, not
\* including, i + window
Starts(r) == 1..(((r.matches * r.window[2] - r.window[1]) \div r.window[2]) + 1)

LastOf(r, i) == i - 1 + ((r.window[1] + r.window[2] - 1) \div r.window[2])

\* the values and the labels of a response are those of its windows
RollingAndLabels(r) ==
    /\ \A key \in {"ppgSeries", "gdPerMatchSeries", "gfPerMatchSeries",
                    "gaPerMatchSeries"} :
          /\ DOMAIN r[key] = Starts(r)
          /\ \A i \in Starts(r) :
                r[key][i] =
                    toFixed2(<<SumOf(SubSeq(MetricsOf(r), i, LastOf(r, i)), key)
                                  * r.window[2], r.window[1]>>)
    /\ DOMAIN r.labels = Starts(r)
    /\ \A i \in Starts(r) : r.labels[i] = MetricsOf(r)[LastOf(r, i)].start_time

\* C19: every trend value is the metric's sum over the window's matches
\* divided by the window, and the label of a window is the start time of
\* its last match
C19_RightAlignedWindows ==
    \A r \in {fin.trend[k] : k \in DOMAIN fin.trend} :
        (r.status = 200 /\ ~LessQ(<<r.matches, 1>>, r.window)) => RollingAndLabels(r)

\* the same for the whole windows only
C19_WholeWindows ==
    \A r \in {fin.trend[k] : k \in DOMAIN fin.trend} :
        (r.status = 200 /\ r.window[2] = 1 /\ r.matches >= r.window[1]) =>
            RollingAndLabels(r)

\* the opponent's points per game over its newest `limit` finished matches,
\* unrounded: <<points, counted matches>>, <<0, 1>> when none counts
ExactPpg(limit) ==
    LET counted == SelectSeq(Limit(fin.opp, limit), Counts)
    IN IF counted = <<>> THEN <<0, 1>>
       ELSE <<PointsTotal(counted, OtherExt), Len(counted)>>

\* (baseline + alpha * (recent - baseline)) * venueFactor of two quotients,
\* alpha and the factor in hundredths
ExactDifficulty(b, r, alpha, venueFactor) ==
    <<(100 * b[1] * r[2] + alpha * (r[1] * b[2] - b[1] * r[2])) * venueFactor,
      10000 * b[2] * r[2]>>

VenueFactorOf(p, homeAway) ==
    IF ~p.enabled THEN 100
    ELSE IF homeAway = "H" THEN p.homeFactor ELSE p.awayFactor

\* C20: each item's difficulty is the opponent strength, computed from the
\* unrounded PPGs, times the venue factor, rounded to two decimals
C20_FullPrecisionStrength ==
    \A r \in Answers : \A it \in ItemsOf(r) :
        it.fixtureDifficulty \in
            Rounds(ExactDifficulty(ExactPpg(r.params.oppMatches),
                                   ExactPpg(r.params.recentOppMatches),
                                   r.params.alpha,
                                   VenueFactorOf(r.params, it.match.homeAway)))

\* what the code does: the strength is computed from the two PPGs as the
\* helper returned them, rounded to two decimals
C20_FromRoundedPpg ==
    \A r \in Answers : \A it \in ItemsOf(r) :
        it.fixtureDifficulty \in
            Rounds(<<(100 * it.opponentMetrics.baselinePPG
                        + r.params.alpha * (it.opponentMetrics.recentPPG
                                            - it.opponentMetrics.baselinePPG))
                      * VenueFactorOf(r.params, it.match.homeAway), 1000000>>)

\* the row of the matches table an item was made from
RowOf(it) == fin.fixtures[it.match.id]

\* the items are matches of the team that start later than now, soonest
\* first, at most params.fixtures (1..10) of them, none of them finished
UpcomingInOrder(r) ==
    /\ r.params.fixtures \in 1..10
    /\ Len(r.items) <= r.params.fixtures
    /\ \A k \in DOMAIN r.items :
          /\ r.items[k].match.id \in DOMAIN fin.fixtures
          /\ TeamExt \in {RowOf(r.items[k]).home_team_external_id,
                          RowOf(r.items[k]).away_team_external_id}
          /\ RowOf(r.items[k]).start_time > now
          /\ r.items[k].match.startTime = RowOf(r.items[k]).start_time
          /\ RowOf(r.items[k]).status_group # 4
    /\ \A a, b \in DOMAIN r.items :
          a < b => r.items[a].match.startTime <= r.items[b].match.startTime
    /\ \A a, b \in DOMAIN r.items : a # b => r.items[a].match.id # r.items[b].match.id

\* C21: the scored fixtures are upcoming matches of the team, soonest first,
\* at most the clamped fixture count, none finished and none cancelled
C21_UpcomingFixturesOnly ==
    \A r \in Answers :
        /\ UpcomingInOrder(r)
        /\ \A it \in ItemsOf(r) : RowOf(it).status_group # 6

\* the same without the cancelled matches
C21_NotFinishedInOrder == \A r \in Answers : UpcomingInOrder(r)

\* a call that left out a finished match and a match already started
C21_SomeLeftOut ==
    \E r \in Answers :
        /\ Len(r.items) = 1
        /\ \E i, j \in DOMAIN fin.fixtures :
              /\ fin.fixtures[i].status_group = 4 /\ fin.fixtures[i].start_time > now
              /\ fin.fixtures[j].status_group = 1 /\ fin.fixtures[j].start_time <= now

\* C22: a team without finished matches gets a snapshot with matches 0, an
\* empty form, every numeric field 0 and no rating
C22_EmptySnapshot ==
    fin.matches = <<>> =>
        \A k \in DOMAIN fin.form :
            /\ fin.form[k].matches = 0
            /\ fin.form[k].form = <<>>
            /\ \A key \in {"points", "ppg", "gf", "ga", "gd", "cleanSheets",
                            "avgGoalsFor", "avgGoalsAgainst"} : fin.form[k][key] = 0
            /\ fin.form[k].formRating = <<>>

C22_Witness == fin.matches = <<>> /\ fin.form # <<>>

\* C23: a user with emailOptIn = true has emailVerified = true
C23_OptInOnlyVerified ==
    ("users" \in DOMAIN fin) => (fin.users.email_opt_in => fin.users.email_verified)

\* C25: of all the consumeEmailVerificationToken calls on one token at most
\* one returns the user id
C25_TokenSingleUse == ("consumed" \in DOMAIN fin) => fin.consumed <= 1

\* C24: two sync runs never execute their fetch-and-upsert phase at the
\* same time
C24_SyncRunsExclusive ==
    ("runs" \in DOMAIN fin) =>
        \A p \in Procs, q \in Procs :
            (/\ p # q
             /\ fin.runs[p].pc \in {"fetch", "BEGIN", "upsert", "COMMIT"}
             /\ fin.runs[q].pc \in {"fetch", "BEGIN", "upsert", "COMMIT"}) => FALSE

\* how often a call has issued query q
Issued(c, q) == Cardinality({k \in DOMAIN c.queries : c.queries[k] = q})

\* the opponents of the fixtures a call has finished with
Met(c) == {opponentExternalId(c.rows[k], TeamExt) : k \in 1..Len(c.items)}

\* C26: a call issues the pair of queries (baseline, recent) exactly once
\* for each distinct opponent and for no other team, its fixtures against one
\* opponent carry the same baseline and recent values, and what its cache
\* holds it has fetched itself
C26_OnePairPerOpponent ==
    ("calls" \in DOMAIN fin) =>
        \A p \in Procs :
            LET c == fin.calls[p]
            IN /\ \A o \in Opponents :
                     /\ Issued(c, <<o, "baseline">>) <= 1
                     /\ Issued(c, <<o, "recent">>) <= 1
                     /\ o \in Met(c) => /\ Issued(c, <<o, "baseline">>) = 1
                                        /\ Issued(c, <<o, "recent">>) = 1
                     /\ (c.pc = "done" /\ o \notin Met(c)) =>
                            /\ Issued(c, <<o, "baseline">>) = 0
                            /\ Issued(c, <<o, "recent">>) = 0
                     /\ c.cache[o] # <<>> => Issued(c, <<o, "recent">>) = 1
               /\ \A j \in 1..Len(c.items), k \in 1..Len(c.items) :
                     opponentExternalId(c.rows[j], TeamExt)
                         = opponentExternalId(c.rows[k], TeamExt)
                     => /\ c.items[j].opponentMetrics.baselinePPG
                              = c.items[k].opponentMetrics.baselinePPG
                        /\ c.items[j].opponentMetrics.baselineMatches
                              = c.items[k].opponentMetrics.baselineMatches
                        /\ c.items[j].opponentMetrics.recentPPG
                              = c.items[k].opponentMetrics.recentPPG
                        /\ c.items[j].opponentMetrics.recentMatches
                              = c.items[k].opponentMetrics.recentMatches

\* a finished call with three fixtures, two of them against one opponent
\* whose result came in after the call had cached it, and a second call that
\* fetched the new values
C26_Witness ==
    /\ "calls" \in DOMAIN fin
    /\ fin.calls[1].pc = "done"
    /\ Len(fin.calls[1].items) = 3
    /\ opponentExternalId(fin.calls[1].rows[1], TeamExt) = OtherExt
    /\ opponentExternalId(fin.calls[1].rows[2], TeamExt) = ThirdExt
    /\ opponentExternalId(fin.calls[1].rows[3], TeamExt) = OtherExt
    /\ fin.calls[1].items[3].opponentMetrics.recentMatches = 0
    /\ fin.calls[2].pc = "done"
    /\ fin.calls[2].items[1].opponentMetrics.recentMatches = 1
    /\ fin.calls[2].items[1].opponentMetrics.recentPPG = 300

\* a ROLLBACK of a rotation of frame p that fails with REFRESH_INVALID runs
InvalidRollbackStep(p) ==
    /\ procs[p].op = "refresh"
    /\ procs[p].conn # 0
    /\ \/ procs[p].pc = "ROLLBACK_INVALID"
       \/ procs[p].pc = "ROLLBACK_CATCH" /\ procs[p].err = "REFRESH_INVALID"
    /\ procs'[p].pc # procs[p].pc

\* C27: a rotate call that fails with REFRESH_INVALID leaves the session
\* store as it is: it revokes no row, inserts none, and takes nothing away
\* from what the other calls have written, committed or not
C27_InvalidLeavesStore ==
    [][\A p \in Procs :
          InvalidRollbackStep(p) =>
             /\ refresh_tokens' = refresh_tokens
             /\ \A c \in Conns : conns'[c].rev = conns[c].rev]_vars

\* the part of C27 about the committed rows alone
C27_CommittedRowsStay ==
    [][\A p \in Procs :
          InvalidRollbackStep(p) =>
             /\ Committed \subseteq DOMAIN refresh_tokens'
             /\ \A r \in Committed : refresh_tokens'[r] = refresh_tokens[r]
             /\ \A r \in DOMAIN refresh_tokens' :
                    refresh_tokens'[r].xid = 0 => r \in Committed]_vars

\* the behaviour so far consists of two refresh requests on different
\* tokens, both answered, with no transaction left open and no expiry
\* instant passed
TwoRotationsSettled ==
    /\ calls = 2 /\ faults = 0 /\ now = 0
    /\ \A p \in Procs : /\ procs[p].op = "refresh"
                         /\ procs[p].raw # NoCookie
                         /\ procs[p].pc = "done"
    /\ procs[1].raw # procs[2].raw
    /\ \A c \in Conns : ~conns[c].inTx

\* C28: two concurrent rotate calls on different tokens each end as they
\* would alone: the one on an Active session succeeds and the store shows its
\* rotation, the one on a token without Active session fails with
\* REFRESH_INVALID
C28_RotationsIndependent ==
    TwoRotationsSettled =>
        \A p \in Procs :
            IF procs[p].preInvalid
            THEN ~RotateOk(p) /\ procs[p].err = "REFRESH_INVALID"
            ELSE /\ RotateOk(p)
                 /\ RotatedIn(refresh_tokens, procs[p].raw, procs[p].newTok,
                              procs[p].userId)

\* C29: with at most five counted matches the baseline is the overall
\* average over the same matches: both deltas are 0, the rating is "Average
\* form" and the confirmation "Mixed", whatever the results
C29_FewMatchesAverage ==
    ("form" \in DOMAIN fin) =>
        \A k \in 1..Len(fin.form) :
            (1 <= fin.form[k].matches /\ fin.form[k].matches <= 5
             /\ fin.form[k].formRating # <<>>) =>
                LET fr == fin.form[k].formRating[1]
                IN /\ fr.recentMatches = fin.form[k].matches
                   /\ fr.baselineMatches = fin.form[k].matches
                   /\ fr.baselinePPG = fin.form[k].ppg
                   /\ fr.recentPPG = fin.form[k].ppg
                   /\ fr.deltaPPG = 0
                   /\ fr.deltaGDPerMatch = 0
                   /\ fr.rating = "Average form"
                   /\ fr.confirmation = "Mixed"

\* five counted matches, all won, rated as average
C29_Witness ==
    /\ "form" \in DOMAIN fin
    /\ fin.form # <<>>
    /\ fin.form[1].matches = 5
    /\ fin.form[1].points = 15
    /\ fin.form[1].formRating # <<>>
    /\ fin.form[1].formRating[1].rating = "Average form"

\* six counted matches rated otherwise
C29_WitnessSixMatches ==
    /\ "form" \in DOMAIN fin
    /\ fin.form # <<>>
    /\ fin.form[1].matches = 6
    /\ fin.form[1].formRating[1].rating = "Strong form"

\* the smaller and the larger of two numbers
Lower(a, b) == IF a < b THEN a ELSE b
Upper(a, b) == IF a < b THEN b ELSE a

C30_WitnessMomentum ==
    \E r \in Answers :
        /\ r.params.alpha = 100
        /\ \E it \in ItemsOf(r) :
              /\ it.opponentMetrics.baselinePPG # it.opponentMetrics.recentPPG
              /\ it.opponentMetrics.oppStrength = it.opponentMetrics.recentPPG

=============================================================================
